---- MODULE Spec2Model ----
(***************************************************************************)
(* A model of the review harvester: the retry wrapper, CAPTCHA handling    *)
(* and block detection of scraping_utilities.py, the proxy rotation of     *)
(* ScrapingUtilities, and the review extraction of                         *)
(* bestbuy_review_scraper.py.                                              *)
(*                                                                         *)
(* Strings are sequences of atoms (a word, a blank, a word part), so that  *)
(* Python's substring test, lower(), strip() and replace() are computed    *)
(* and not assumed.                                                        *)
(***************************************************************************)
EXTENDS Integers, Sequences, FiniteSets, TLC

VARIABLES
    \* ---- the retry wrapper (implement_retry_mechanism.wrapper) ----
    max_retries, backoff_factor, initial_wait, error_types, retry_on_captcha,
    pc,            \* position of the wrapper
    retries, wait_time,
    calls,         \* number of invocations of the wrapped function so far
    sleeps,        \* the time.sleep durations of the wrapper, in order
    result,        \* the wrapper's local variable result (line 239)
    cur,           \* the driver handle_captcha is looking at, or None
    elapsed,       \* seconds waited in handle_captcha's poll loop
    outcome,       \* what the wrapper gave its caller: a result or an error
    all_failed,    \* every invocation so far raised a retryable error
    last_fail,     \* what made the last failed attempt fail
    \* ---- block detection and CAPTCHA detection on one page ----
    page, block_indicators, cls_pc, blocked, captcha_detected,
    \* ---- the proxy pool ----
    proxies, current_proxy_index,
    failed_probe,  \* the endpoints whose probe failed in the last test_proxies
    pool_source,   \* where the pool was last loaded from
    unhealthy,     \* the endpoints whose last probe failed, or on which a
                   \* block was detected since their last good probe
    last_proxy,    \* what the last get_next_proxy returned
    proxy_op,      \* the last operation on the pool
    \* ---- parse_reviews ----
    document, all_reviews, pos, reviews, parse_pc, next_id, processed,
    \* ---- scrape_product_reviews ----
    max_reviews,   \* the max_reviews argument; 0 stands for None
    s_pc,          \* position of scrape_product_reviews
    ops,           \* the methods scrape_product_reviews has called, in order
    ret,           \* what scrape_product_reviews returned
    fail,          \* what cut the session short: navigation or an exception
    site,          \* what the browser finds at product_url
    hidden,        \* the review nodes a click on 'Show More' would add
    working_selector, attempts, clicks,
    \* ---- the caller's overall deadline ----
    deadline_at,   \* the number of calls made when the overall deadline of the
                   \* session passed; -1 while it has not passed
    \* ---- two callers of get_next_proxy ----
    t_pc,          \* position of each caller in get_next_proxy
    t_index,       \* the cursor value each caller read at line 122
    t_proxy,       \* the local variable proxy of each caller
    \* ---- add_anti_bot_measures ----
    prep_pc,       \* position of add_anti_bot_measures
    prep_faults,   \* the driver calls that raise
    prep_calls,    \* the driver calls made so far, with their arguments
    prep_out,      \* what add_anti_bot_measures gave its caller
    \* ---- a record of the get_next_proxy calls on one pool ----
    rot_on,        \* whether the calls are recorded
    rot_log,       \* for each recorded call: the pool size and the cursor it
                   \* found, what it returned, and the cursor it left
    \* ---- parse_reviews and save_to_csv called on one scraper ----
    passes,        \* the number of parse_reviews calls made on the scraper
    saved,         \* what the last save_to_csv returned
    \* ---- categorize_sentiment on one row of analyze_reviews ----
    sent_pc,       \* position of the call
    a_score,       \* compound_score, in hundredths
    a_rating,      \* row.get('rating'), in tenths of a star
    a_out          \* the pair categorize_sentiment returned

retryVars == <<max_retries, backoff_factor, initial_wait, error_types,
               retry_on_captcha, pc, retries, wait_time, calls, sleeps, result,
               cur, elapsed, outcome, all_failed, last_fail>>
pageVars == <<page, block_indicators, cls_pc, blocked, captcha_detected>>
proxyVars == <<proxies, current_proxy_index, failed_probe, pool_source,
               unhealthy, last_proxy, proxy_op>>
parseVars == <<document, all_reviews, pos, reviews, parse_pc, next_id, processed>>
sessionVars == <<max_reviews, s_pc, ops, ret, fail, site, hidden,
                 working_selector, attempts, clicks>>
deadlineVars == <<deadline_at>>
threadVars == <<t_pc, t_index, t_proxy>>
prepVars == <<prep_pc, prep_faults, prep_calls, prep_out>>
rotateVars == <<rot_on, rot_log>>
passVars == <<passes, saved>>
sentVars == <<sent_pc, a_score, a_rating, a_out>>
vars == <<retryVars, pageVars, proxyVars, parseVars, sessionVars, deadlineVars,
          threadVars, prepVars, rotateVars, passVars, sentVars>>

\* Python's None, as a value of every record-valued variable.
None == [kind |-> "none"]

(***************************************************************************)
(* Strings.                                                                *)
(***************************************************************************)

\* Python's `needle in hay`.
Contains(needle, hay) ==
    \E i \in 0..(Len(hay) - Len(needle)) :
        SubSeq(hay, i + 1, i + Len(needle)) = needle

\* str.lower() on one atom.
LowerAtom(a) ==
    CASE a = "CAPTCHA" -> "captcha"
      [] a = "Access" -> "access"
      [] a = "Denied" -> "denied"
      [] a = "Blocked" -> "blocked"
      [] a = "Re" -> "re"
      [] OTHER -> a

\* str.lower().
Lower(s) == [i \in 1..Len(s) |-> LowerAtom(s[i])]

RECURSIVE Concat(_)
\* The concatenation of a sequence of strings.
Concat(ss) == IF ss = <<>> THEN <<>> ELSE Head(ss) \o Concat(Tail(ss))

(***************************************************************************)
(* Pages: the driver's current document, its source and its HTTP status.   *)
(***************************************************************************)

\* An element of the page: a tag with one attribute.
Elem(tag, attr, val) == [tag |-> tag, attr |-> attr, val |-> val]

PageElements ==
    { Elem("iframe", "src", <<"google", "/", "re", "captcha">>),
      Elem("iframe", "src", <<"h", "captcha", ".", "com">>),
      Elem("div", "class", <<"g", "-", "re", "captcha">>),
      Elem("div", "class", <<"h", "-", "captcha">>),
      Elem("input", "id", <<"captcha">>),
      Elem("input", "id", <<"captcha", "2">>),
      Elem("div", "class", <<"review">>) }

PageTexts ==
    { <<>>,
      <<"great", " ", "tv">>,
      <<"Access", " ", "Denied">>,
      <<"rate", " ", "limit">>,
      <<"solve", " ", "the", " ", "CAPTCHA">>,
      <<"the", " ", "seller", " ", "blocked", " ", "me">> }

\* window.performance.getEntries()[0].responseStatus; 0 when the script raises
\* and no status is available.
Statuses == {200, 403, 429, 0}

Pages ==
    [elems : {<<>>} \cup {<<e>> : e \in PageElements},
     text : PageTexts,
     status : Statuses]

\* The markup of an element as it stands in the page source.
Serialize(e) == <<"<", e.tag, " ", e.attr, "=">> \o e.val \o <<">">>

\* driver.page_source: the serialized document.
page_source(p) ==
    Concat([i \in 1..Len(p.elems) |-> Serialize(p.elems[i])]) \o p.text

(***************************************************************************)
(* is_blocked (scraping_utilities.py 309-351).                             *)
(***************************************************************************)

default_indicators ==
    << <<"captcha">>,
       <<"security", " ", "check">>,
       <<"access", " ", "denied">>,
       <<"blocked">>,
       <<"rate", " ", "limit">>,
       <<"too", " ", "many", " ", "requests">>,
       <<"unusual", " ", "activity">>,
       <<"suspicious", " ", "activity">>,
       <<"detected", " ", "unusual", " ", "traffic">> >>

\* A variant of is_blocked that lets a CAPTCHA widget take precedence over the
\* block phrases.
is_blocked_captcha_first(p, custom) ==
    /\ ~ \E i \in 1..Len(p.elems) : Contains(<<"captcha">>, p.elems[i].val)
    /\ \/ \E i \in 1..Len(default_indicators \o custom) :
              Contains((default_indicators \o custom)[i], Lower(page_source(p)))
       \/ p.status \in {403, 429}

\* is_blocked(driver, block_indicators): a phrase in the lowered page source, or
\* HTTP 403/429.
is_blocked(p, custom) ==
    LET indicators == default_indicators \o custom
    IN  \/ \E i \in 1..Len(indicators) :
               Contains(indicators[i], Lower(page_source(p)))
        \/ p.status \in {403, 429}

(***************************************************************************)
(* handle_captcha's detection (scraping_utilities.py 158-180).             *)
(***************************************************************************)

\* One XPath indicator: //tag[contains(@attr, needle)] or //tag[@attr = needle].
XPath(tag, attr, mode, needle) ==
    [tag |-> tag, attr |-> attr, mode |-> mode, needle |-> needle]

captcha_xpaths ==
    << XPath("iframe", "src", "contains", <<"re", "captcha">>),
       XPath("iframe", "src", "contains", <<"h", "captcha">>),
       XPath("div", "class", "contains", <<"g", "-", "re", "captcha">>),
       XPath("div", "class", "contains", <<"h", "-", "captcha">>),
       XPath("input", "id", "equals", <<"captcha">>) >>

\* driver.find_elements(By.XPATH, x) is non-empty.
find_elements(p, x) ==
    \E i \in 1..Len(p.elems) :
        /\ p.elems[i].tag = x.tag
        /\ p.elems[i].attr = x.attr
        /\ IF x.mode = "contains"
           THEN Contains(x.needle, p.elems[i].val)
           ELSE p.elems[i].val = x.needle

\* The loop of lines 170-177: some indicator finds an element.
detect_captcha(p) ==
    \E i \in 1..Len(captcha_xpaths) : find_elements(p, captcha_xpaths[i])

\* The wrapper's own test (lines 243-244): a CAPTCHA word in the lowered source.
wrapper_indicators == << <<"re", "captcha">>, <<"h", "captcha">>, <<"captcha">> >>

has_captcha_word(p) ==
    \E i \in 1..Len(wrapper_indicators) :
        Contains(wrapper_indicators[i], Lower(page_source(p)))

(***************************************************************************)
(* The retry wrapper (scraping_utilities.py 217-267) and handle_captcha's  *)
(* wait (184-215).                                                         *)
(***************************************************************************)

MaxRetries == 2
MaxFactor == 2
MaxInitialWait == 2

\* handle_captcha's timeout parameter, in seconds; the poll sleeps one second.
CaptchaTimeout == 30

ErrorKinds == {"TimeoutException", "WebDriverException"}

Page(elems, text, status) == [elems |-> elems, text |-> text, status |-> status]

\* The pages the wrapped function's driver may show.
OpPages ==
    { Page(<<>>, <<"great", " ", "tv">>, 200),
      Page(<<>>, <<"Access", " ", "Denied">>, 200),
      Page(<<>>, <<"solve", " ", "the", " ", "CAPTCHA">>, 200),
      Page(<<Elem("iframe", "src", <<"google", "/", "re", "captcha">>)>>, <<>>, 200),
      Page(<<Elem("div", "class", <<"h", "-", "captcha">>)>>, <<"rate", " ", "limit">>, 200) }

\* What one invocation of the wrapped function does: it returns a driver, returns
\* a value that has no page_source, or raises.
Outcomes ==
    {[kind |-> "driver", page |-> p] : p \in OpPages}
    \cup {[kind |-> "value"]}
    \cup {[kind |-> "raise", error |-> e] : e \in ErrorKinds}

Returned(r) == [kind |-> "result", result |-> r]
Raised(e) == [kind |-> "error", error |-> e]

\* The exception of line 265.
GenericFailure == "Exception: Failed after retries"

\* A loop guard that allows one iteration too many.
budget_left_one_more(r, m) == r <= m + 1

\* A loop condition that also gives up once the overall deadline has passed.
budget_left_until_deadline(r, m) == r <= m /\ deadline_at = -1

\* Line 237: while retries <= max_retries.
budget_left(r, m) == r <= m

\* A test that gives up one attempt early.
exhausted_early(r, m) == r >= m

\* Line 257: if retries > max_retries.
exhausted(r, m) == r > m

\* Lines 262-263: the error path sleeps, then multiplies.
error_sleep(w, f) == w

\* Lines 249-251: the CAPTCHA path multiplies, then sleeps.
captcha_sleep(w, f) == w * f

\* The page once the challenge has been answered in the browser.
Solved(p) == Page(<<>>, <<"great", " ", "tv">>, p.status)

\* An except clause that re-raises a generic exception in the place of the
\* caught one.
surfaced_generic(e) == GenericFailure

\* Line 259: a bare raise re-raises the caught exception.
surfaced(e) == e

\* An except clause that catches every exception.
caught_any(e, types) == TRUE

\* Line 255: except error_types as e catches e when its kind is listed.
caught(e, types) == e \in types

\* The except clause of lines 255-263, for an exception e raised in the try body.
ExceptHandler(e) ==
    IF ~ caught(e, error_types)
    THEN /\ pc' = "raised"
         /\ outcome' = Raised(e)
         /\ UNCHANGED <<retries, wait_time, sleeps>>
    ELSE /\ retries' = retries + 1
         /\ IF exhausted(retries + 1, max_retries)
            THEN /\ pc' = "raised"
                 /\ outcome' = Raised(surfaced(e))
                 /\ UNCHANGED <<wait_time, sleeps>>
            ELSE /\ pc' = "loop"
                 /\ sleeps' = Append(sleeps, error_sleep(wait_time, backoff_factor))
                 /\ wait_time' = wait_time * backoff_factor
                 /\ UNCHANGED outcome

\* A wrapper that also withholds a page is_blocked reports.
needs_captcha_handling_or_blocked(o) ==
    /\ retry_on_captcha
    /\ o.kind = "driver"
    /\ (has_captcha_word(o.page) \/ is_blocked(o.page, <<>>))

\* Lines 242-244: the result is a driver whose page has a CAPTCHA word.
needs_captcha_handling(o) ==
    /\ retry_on_captcha
    /\ o.kind = "driver"
    /\ has_captcha_word(o.page)

\* Lines 237-254: one pass of the loop up to the first return, raise or call of
\* handle_captcha.
Attempt ==
    /\ pc = "loop"
    /\ budget_left(retries, max_retries)
    /\ calls' = calls + 1
    /\ \E o \in Outcomes :
          IF o.kind = "raise"
          THEN /\ ExceptHandler(o.error)
               /\ all_failed' = (all_failed /\ o.error \in error_types)
               /\ last_fail' = o.error
               /\ UNCHANGED <<result, cur>>
          ELSE /\ all_failed' = FALSE
               /\ result' = o
               /\ UNCHANGED <<retries, wait_time, sleeps, last_fail>>
               /\ IF needs_captcha_handling(o)
                  THEN /\ pc' = "handle_captcha"
                       /\ cur' = o
                       /\ UNCHANGED outcome
                  ELSE /\ pc' = "returned"
                       /\ outcome' = Returned(o)
                       /\ UNCHANGED cur
    /\ UNCHANGED <<max_retries, backoff_factor, initial_wait, error_types,
                   retry_on_captcha, elapsed>>
    /\ UNCHANGED <<pageVars, proxyVars, parseVars, sessionVars,
                   deadlineVars, threadVars, prepVars,
                   rotateVars, passVars, sentVars>>

\* Line 265: the loop ended without a return.
LoopExit ==
    /\ pc = "loop"
    /\ ~ budget_left(retries, max_retries)
    /\ pc' = "raised"
    /\ outcome' = Raised(GenericFailure)
    /\ UNCHANGED <<max_retries, backoff_factor, initial_wait, error_types,
                   retry_on_captcha, retries, wait_time, calls, sleeps, result,
                   cur, elapsed, all_failed, last_fail>>
    /\ UNCHANGED <<pageVars, proxyVars, parseVars, sessionVars,
                   deadlineVars, threadVars, prepVars,
                   rotateVars, passVars, sentVars>>

\* handle_captcha, lines 158-192: no CAPTCHA element means True at once; else the
\* wait for a manual answer starts.
HandleCaptchaDetect ==
    /\ pc = "handle_captcha"
    /\ IF detect_captcha(cur.page)
       THEN pc' = "polling" /\ elapsed' = 0
       ELSE pc' = "rerun" /\ UNCHANGED elapsed
    /\ UNCHANGED <<max_retries, backoff_factor, initial_wait, error_types,
                   retry_on_captcha, retries, wait_time, calls, sleeps, result,
                   cur, outcome, all_failed, last_fail>>
    /\ UNCHANGED <<pageVars, proxyVars, parseVars, sessionVars,
                   deadlineVars, threadVars, prepVars,
                   rotateVars, passVars, sentVars>>

\* A clock that starts over before it reaches the timeout.
tick_wraps(e) == (e + 1) % CaptchaTimeout

\* Line 208: time.sleep(1) between two polls.
tick(e) == e + 1

\* handle_captcha, lines 193-208: one poll inside the timeout. The browser's
\* page is what the user made of it in the meantime.
CaptchaPoll ==
    /\ pc = "polling"
    /\ elapsed < CaptchaTimeout
    /\ \E p \in {cur.page, Solved(cur.page)} :
          /\ cur' = [cur EXCEPT !.page = p]
          /\ IF detect_captcha(p)
             THEN pc' = "polling" /\ elapsed' = tick(elapsed)
             ELSE pc' = "rerun" /\ UNCHANGED elapsed
    /\ UNCHANGED <<max_retries, backoff_factor, initial_wait, error_types,
                   retry_on_captcha, retries, wait_time, calls, sleeps, result,
                   outcome, all_failed, last_fail>>
    /\ UNCHANGED <<pageVars, proxyVars, parseVars, sessionVars,
                   deadlineVars, threadVars, prepVars,
                   rotateVars, passVars, sentVars>>

\* A wait that ends the run at the timeout, with an error of its own kind.
CaptchaTimedOut_fail_fast ==
    /\ pc = "polling"
    /\ elapsed >= CaptchaTimeout
    /\ last_fail' = "captcha"
    /\ pc' = "raised"
    /\ outcome' = Raised("CaptchaUnresolved")
    /\ UNCHANGED <<max_retries, backoff_factor, initial_wait, error_types,
                   retry_on_captcha, retries, wait_time, calls, sleeps, result,
                   cur, elapsed, all_failed>>
    /\ UNCHANGED <<pageVars, proxyVars, parseVars, sessionVars,
                   deadlineVars, threadVars, prepVars,
                   rotateVars, passVars, sentVars>>

\* handle_captcha, lines 210-211, returns False, and the wrapper's lines 248-252
\* count a retry, multiply the wait, sleep and continue.
CaptchaTimedOut ==
    /\ pc = "polling"
    /\ elapsed >= CaptchaTimeout
    /\ retries' = retries + 1
    /\ wait_time' = wait_time * backoff_factor
    /\ sleeps' = Append(sleeps, captcha_sleep(wait_time, backoff_factor))
    /\ last_fail' = "captcha"
    /\ pc' = "loop"
    /\ UNCHANGED <<max_retries, backoff_factor, initial_wait, error_types,
                   retry_on_captcha, calls, result, cur, elapsed, outcome,
                   all_failed>>
    /\ UNCHANGED <<pageVars, proxyVars, parseVars, sessionVars,
                   deadlineVars, threadVars, prepVars,
                   rotateVars, passVars, sentVars>>

\* Line 246: return function(*args, **kwargs), inside the try.
Rerun ==
    /\ pc = "rerun"
    /\ calls' = calls + 1
    /\ \E o \in Outcomes :
          IF o.kind = "raise"
          THEN /\ ExceptHandler(o.error)
               /\ last_fail' = o.error
          ELSE /\ pc' = "returned"
               /\ outcome' = Returned(o)
               /\ UNCHANGED <<retries, wait_time, sleeps, last_fail>>
    /\ UNCHANGED <<max_retries, backoff_factor, initial_wait, error_types,
                   retry_on_captcha, result, cur, elapsed, all_failed>>
    /\ UNCHANGED <<pageVars, proxyVars, parseVars, sessionVars,
                   deadlineVars, threadVars, prepVars,
                   rotateVars, passVars, sentVars>>

PageIdle ==
    /\ page = None
    /\ block_indicators = <<>>
    /\ cls_pc = "idle"
    /\ blocked = FALSE
    /\ captcha_detected = FALSE

\* ScrapingUtilities.__init__, lines 19-20.
ProxyIdle ==
    /\ proxies = <<>>
    /\ current_proxy_index = 0
    /\ failed_probe = {}
    /\ pool_source = "none"
    /\ unhealthy = {}
    /\ last_proxy = "None"
    /\ proxy_op = "none"

ParseIdle ==
    /\ document = <<>>
    /\ all_reviews = <<>>
    /\ pos = 0
    /\ reviews = <<>>
    /\ parse_pc = "idle"
    /\ next_id = 1
    /\ processed = <<>>

SessionIdle ==
    /\ max_reviews = 0
    /\ s_pc = "idle"
    /\ ops = <<>>
    /\ ret = None
    /\ fail = "none"
    /\ site = None
    /\ hidden = <<>>
    /\ working_selector = "None"
    /\ attempts = 0
    /\ clicks = 0

DeadlineIdle == deadline_at = -1

ThreadsIdle ==
    /\ t_pc = <<>>
    /\ t_index = <<>>
    /\ t_proxy = <<>>

PrepIdle ==
    /\ prep_pc = "idle"
    /\ prep_faults = {}
    /\ prep_calls = <<>>
    /\ prep_out = None

\* No call of get_next_proxy is recorded.
RotateIdle ==
    /\ rot_on = FALSE
    /\ rot_log = <<>>

SentIdle ==
    /\ sent_pc = "idle"
    /\ a_score = 0
    /\ a_rating = 0
    /\ a_out = None

PassIdle ==
    /\ passes = 0
    /\ saved = None

\* The components that belong to the session, to the deadline, to the two
\* callers, to add_anti_bot_measures and to the records of calls are at rest.
RestIdle ==
    /\ SessionIdle /\ DeadlineIdle /\ ThreadsIdle /\ PrepIdle
    /\ RotateIdle /\ PassIdle /\ SentIdle

RetryIdle ==
    /\ max_retries = 0
    /\ backoff_factor = 1
    /\ initial_wait = 1
    /\ error_types = ErrorKinds
    /\ retry_on_captcha = TRUE
    /\ pc = "idle"
    /\ retries = 0
    /\ wait_time = 1
    /\ calls = 0
    /\ sleeps = <<>>
    /\ result = None
    /\ cur = None
    /\ elapsed = 0
    /\ outcome = None
    /\ all_failed = TRUE
    /\ last_fail = "None"

\* The wrapper is called: lines 234-235.
InitRetry ==
    /\ max_retries \in 0..MaxRetries
    /\ backoff_factor \in 1..MaxFactor
    /\ initial_wait \in 1..MaxInitialWait
    /\ error_types \in {ErrorKinds, {"TimeoutException"}}
    /\ retry_on_captcha \in BOOLEAN
    /\ pc = "loop"
    /\ retries = 0
    /\ wait_time = initial_wait
    /\ calls = 0
    /\ sleeps = <<>>
    /\ result = None
    /\ cur = None
    /\ elapsed = 0
    /\ outcome = None
    /\ all_failed = TRUE
    /\ last_fail = "None"
    /\ PageIdle /\ ProxyIdle /\ ParseIdle /\ RestIdle

NextRetry ==
    \/ Attempt
    \/ LoopExit
    \/ HandleCaptchaDetect
    \/ CaptchaPoll
    \/ CaptchaTimedOut
    \/ Rerun

SpecRetry == InitRetry /\ [][NextRetry]_vars

\* The wrapper with the defaults of line 217 for the waits, as code that keeps
\* running: a step that can be taken is taken.
InitRetryLive ==
    /\ InitRetry
    /\ backoff_factor = 2
    /\ initial_wait = 1

SpecRetryLive == InitRetryLive /\ [][NextRetry]_vars /\ WF_vars(NextRetry)

(***************************************************************************)
(* The wrapper run by a session that has an overall deadline. Neither      *)
(* implement_retry_mechanism nor handle_captcha takes a deadline: the time *)
(* limits they know are handle_captcha's timeout and the attempt budget.   *)
(***************************************************************************)

\* The session's deadline passes while handle_captcha polls, or during the
\* sleep that follows a failed attempt.
DeadlinePasses ==
    /\ deadline_at = -1
    /\ \/ pc = "polling"
       \/ pc = "loop" /\ sleeps # <<>>
    /\ deadline_at' = calls
    /\ UNCHANGED <<retryVars, pageVars, proxyVars, parseVars, sessionVars,
                   threadVars, prepVars, rotateVars, passVars, sentVars>>

\* The wrapper is called with CAPTCHA handling on, every error retryable and
\* the default initial_wait.
InitDeadline ==
    /\ InitRetry
    /\ retry_on_captcha
    /\ error_types = ErrorKinds
    /\ initial_wait = 1

NextDeadline ==
    \/ NextRetry
    \/ DeadlinePasses

SpecDeadline == InitDeadline /\ [][NextDeadline]_vars

(***************************************************************************)
(* Block detection and CAPTCHA detection applied to one page.              *)
(***************************************************************************)

\* is_blocked(driver, block_indicators) is called on the page.
CallIsBlocked ==
    /\ cls_pc \in {"start", "captcha_checked"}
    /\ blocked' = is_blocked(page, block_indicators)
    /\ cls_pc' = IF cls_pc = "start" THEN "blocked_checked" ELSE "both"
    /\ UNCHANGED <<page, block_indicators, captcha_detected>>
    /\ UNCHANGED <<retryVars, proxyVars, parseVars, sessionVars,
                   deadlineVars, threadVars, prepVars,
                   rotateVars, passVars, sentVars>>

\* handle_captcha(driver) runs its detection (lines 170-180) on the page.
CallDetectCaptcha ==
    /\ cls_pc \in {"start", "blocked_checked"}
    /\ captcha_detected' = detect_captcha(page)
    /\ cls_pc' = IF cls_pc = "start" THEN "captcha_checked" ELSE "both"
    /\ UNCHANGED <<page, block_indicators, blocked>>
    /\ UNCHANGED <<retryVars, proxyVars, parseVars, sessionVars,
                   deadlineVars, threadVars, prepVars,
                   rotateVars, passVars, sentVars>>

InitClassify ==
    /\ page \in Pages
    /\ block_indicators \in {<<>>, << <<"great">> >>}
    /\ cls_pc = "start"
    /\ blocked = FALSE
    /\ captcha_detected = FALSE
    /\ RetryIdle /\ ProxyIdle /\ ParseIdle /\ RestIdle

NextClassify ==
    \/ CallIsBlocked
    \/ CallDetectCaptcha

SpecClassify == InitClassify /\ [][NextClassify]_vars

(***************************************************************************)
(* The proxy pool (scraping_utilities.py 19-20, 26-123).                   *)
(***************************************************************************)

Endpoints == {"10.0.0.1:80", "10.0.0.2:80", "10.0.0.3:80"}

MaxCandidates == 3

\* test_proxies' max_test parameter.
max_test == 20

Range(seq) == {seq[i] : i \in 1..Len(seq)}

\* The candidate lists a proxy source may hand over: no endpoint twice.
CandidateLists ==
    {c \in UNION {[1..n -> Endpoints] : n \in 0..MaxCandidates} :
        Cardinality(Range(c)) = Len(c)}

RECURSIVE Filter(_, _)
\* The entries of seq that are in the set keep, in order.
Filter(seq, keep) ==
    IF seq = <<>> THEN <<>>
    ELSE (IF Head(seq) \in keep THEN <<Head(seq)>> ELSE <<>>)
         \o Filter(Tail(seq), keep)

\* proxy_list[:min(len(proxy_list), max_test)], line 97.
Tested(proxy_list) ==
    SubSeq(proxy_list, 1, IF Len(proxy_list) < max_test
                          THEN Len(proxy_list) ELSE max_test)

\* A test that keeps every candidate, whatever its probe answered.
test_proxies_keep_all(proxy_list, up) == Tested(proxy_list)

\* test_proxies, lines 94-114: the tested candidates whose probe answered 200;
\* up is the set of endpoints that answer.
test_proxies(proxy_list, up) == Filter(Tested(proxy_list), up)

\* get_proxy_list with an API key the service accepts, lines 38-48: the pool is
\* the service's list, unprobed.
GetProxyListPaid ==
    /\ \E c \in CandidateLists : proxies' = c
    /\ pool_source' = "paid"
    /\ proxy_op' = "load"
    /\ UNCHANGED <<current_proxy_index, failed_probe, unhealthy, last_proxy>>
    /\ UNCHANGED <<retryVars, pageVars, parseVars, sessionVars,
                   deadlineVars, threadVars, prepVars,
                   rotateVars, passVars, sentVars>>

\* get_proxy_list on the free list, lines 55-74: the pool is what test_proxies
\* keeps.
GetProxyListFree ==
    /\ \E c \in CandidateLists, up \in SUBSET Endpoints :
          /\ proxies' = test_proxies(c, up)
          /\ failed_probe' = Range(Tested(c)) \ up
          /\ unhealthy' = (unhealthy \ (Range(Tested(c)) \cap up))
                          \cup (Range(Tested(c)) \ up)
    /\ pool_source' = "free"
    /\ proxy_op' = "load"
    /\ UNCHANGED <<current_proxy_index, last_proxy>>
    /\ UNCHANGED <<retryVars, pageVars, parseVars, sessionVars,
                   deadlineVars, threadVars, prepVars,
                   rotateVars, passVars, sentVars>>

\* get_proxy_list when no source answers, lines 75-79: [] is returned and the
\* pool is left as it was.
GetProxyListNone ==
    /\ proxy_op' = "load_failed"
    /\ UNCHANGED <<proxies, current_proxy_index, failed_probe, pool_source,
                   unhealthy, last_proxy>>
    /\ UNCHANGED <<retryVars, pageVars, parseVars, sessionVars,
                   deadlineVars, threadVars, prepVars,
                   rotateVars, passVars, sentVars>>

\* A rotation that does not wrap around.
next_index_no_wrap(i, pool, bad) == i + 1

\* A rotation that leaves the cursor where it is.
next_index_stay(i, pool, bad) == i

\* Line 122: the cursor moves one place, wrapping around.
next_index(i, pool, bad) == (i + 1) % Len(pool)

\* The number of get_next_proxy calls that are recorded.
MaxCalls == 6

\* What one call of get_next_proxy adds to the record.
Recorded(answer, after) ==
    IF rot_on /\ Len(rot_log) < MaxCalls
    THEN Append(rot_log, [n |-> Len(proxies), cursor |-> current_proxy_index,
                          ret |-> answer, after |-> after])
    ELSE rot_log

\* get_next_proxy, lines 116-123. An index past the end of the list raises
\* IndexError at line 121.
GetNextProxy ==
    /\ proxy_op' = "next"
    /\ IF proxies = <<>>
       THEN /\ last_proxy' = "None"
            /\ UNCHANGED current_proxy_index
       ELSE IF current_proxy_index >= Len(proxies)
       THEN /\ last_proxy' = "IndexError"
            /\ UNCHANGED current_proxy_index
       ELSE /\ last_proxy' = proxies[current_proxy_index + 1]
            /\ current_proxy_index' =
                   next_index(current_proxy_index, proxies, unhealthy)
    /\ rot_log' = Recorded(last_proxy', current_proxy_index')
    /\ UNCHANGED <<proxies, failed_probe, pool_source, unhealthy, rot_on>>
    /\ UNCHANGED <<retryVars, pageVars, parseVars, sessionVars,
                   deadlineVars, threadVars, prepVars, passVars, sentVars>>

\* is_blocked reports a block on a session that runs through the proxy issued
\* last; nothing in the pool records it.
BlockDetected ==
    /\ last_proxy \in Endpoints
    /\ unhealthy' = unhealthy \cup {last_proxy}
    /\ proxy_op' = "block"
    /\ UNCHANGED <<proxies, current_proxy_index, failed_probe, pool_source,
                   last_proxy>>
    /\ UNCHANGED <<retryVars, pageVars, parseVars, sessionVars,
                   deadlineVars, threadVars, prepVars,
                   rotateVars, passVars, sentVars>>

InitProxy ==
    /\ ProxyIdle
    /\ RetryIdle /\ PageIdle /\ ParseIdle /\ RestIdle

NextProxy ==
    \/ GetProxyListPaid
    \/ GetProxyListFree
    \/ GetProxyListNone
    \/ GetNextProxy
    \/ BlockDetected

SpecProxy == InitProxy /\ [][NextProxy]_vars

(***************************************************************************)
(* The rotation over one pool: a ScrapingUtilities whose pool is loaded    *)
(* once and then left alone, with its get_next_proxy calls recorded.       *)
(***************************************************************************)

\* get_proxy_list is called while the pool is still the [] of line 19.
FirstLoad ==
    /\ pool_source = "none"
    /\ \/ GetProxyListPaid
       \/ GetProxyListFree

InitRotate ==
    /\ ProxyIdle
    /\ rot_on = TRUE
    /\ rot_log = <<>>
    /\ RetryIdle /\ PageIdle /\ ParseIdle
    /\ SessionIdle /\ DeadlineIdle /\ ThreadsIdle /\ PrepIdle /\ PassIdle
    /\ SentIdle

NextRotate ==
    \/ FirstLoad
    \/ GetProxyListNone
    \/ GetNextProxy

SpecRotate == InitRotate /\ [][NextRotate]_vars

(***************************************************************************)
(* Two callers in get_next_proxy (scraping_utilities.py 116-123) at the    *)
(* same time, on a pool that no one reloads. The method takes no lock; a   *)
(* caller may be overtaken between any two of its accesses to the cursor.  *)
(***************************************************************************)

Threads == {1, 2}

\* Lines 118-119: an empty pool gives None.
T_Check(t) ==
    /\ t_pc[t] = "call"
    /\ IF proxies = <<>>
       THEN /\ t_pc' = [t_pc EXCEPT ![t] = "done"]
            /\ t_proxy' = [t_proxy EXCEPT ![t] = "None"]
       ELSE /\ t_pc' = [t_pc EXCEPT ![t] = "read"]
            /\ UNCHANGED t_proxy
    /\ UNCHANGED <<t_index, proxyVars>>
    /\ UNCHANGED <<retryVars, pageVars, parseVars, sessionVars, deadlineVars,
                   prepVars, rotateVars, passVars, sentVars>>

\* Line 121: proxy = self.proxies[self.current_proxy_index].
T_Read(t) ==
    /\ t_pc[t] = "read"
    /\ IF current_proxy_index >= Len(proxies)
       THEN /\ t_pc' = [t_pc EXCEPT ![t] = "done"]
            /\ t_proxy' = [t_proxy EXCEPT ![t] = "IndexError"]
       ELSE /\ t_pc' = [t_pc EXCEPT ![t] = "load"]
            /\ t_proxy' = [t_proxy EXCEPT ![t] = proxies[current_proxy_index + 1]]
    /\ UNCHANGED <<t_index, proxyVars>>
    /\ UNCHANGED <<retryVars, pageVars, parseVars, sessionVars, deadlineVars,
                   prepVars, rotateVars, passVars, sentVars>>

\* Line 122, right-hand side: the cursor is read.
T_Load(t) ==
    /\ t_pc[t] = "load"
    /\ t_index' = [t_index EXCEPT ![t] = current_proxy_index]
    /\ t_pc' = [t_pc EXCEPT ![t] = "store"]
    /\ UNCHANGED <<t_proxy, proxyVars>>
    /\ UNCHANGED <<retryVars, pageVars, parseVars, sessionVars, deadlineVars,
                   prepVars, rotateVars, passVars, sentVars>>

\* Line 122, assignment, and line 123: the cursor is written from the value
\* read, and proxy is returned.
T_Store(t) ==
    /\ t_pc[t] = "store"
    /\ current_proxy_index' = next_index(t_index[t], proxies, unhealthy)
    /\ t_pc' = [t_pc EXCEPT ![t] = "done"]
    /\ UNCHANGED <<t_index, t_proxy>>
    /\ UNCHANGED <<proxies, failed_probe, pool_source, unhealthy, last_proxy,
                   proxy_op>>
    /\ UNCHANGED <<retryVars, pageVars, parseVars, sessionVars, deadlineVars,
                   prepVars, rotateVars, passVars, sentVars>>

\* Two callers enter get_next_proxy on a loaded pool whose cursor is in range.
InitThreads ==
    /\ proxies \in CandidateLists
    /\ current_proxy_index \in 0..(MaxCandidates - 1)
    /\ current_proxy_index < Len(proxies) \/ current_proxy_index = 0
    /\ failed_probe = {}
    /\ pool_source = "paid"
    /\ unhealthy = {}
    /\ last_proxy = "None"
    /\ proxy_op = "load"
    /\ t_pc = [t \in Threads |-> "call"]
    /\ t_index = [t \in Threads |-> 0]
    /\ t_proxy = [t \in Threads |-> "None"]
    /\ RetryIdle /\ PageIdle /\ ParseIdle
    /\ SessionIdle /\ DeadlineIdle /\ PrepIdle /\ RotateIdle /\ PassIdle
    /\ SentIdle

NextThreads ==
    \/ \E t \in Threads : T_Check(t)
    \/ \E t \in Threads : T_Read(t)
    \/ \E t \in Threads : T_Load(t)
    \/ \E t \in Threads : T_Store(t)

SpecThreads == InitThreads /\ [][NextThreads]_vars

(***************************************************************************)
(* add_anti_bot_measures (scraping_utilities.py 280-307): three calls on   *)
(* the driver, one after the other, outside any try.                       *)
(***************************************************************************)

\* The driver calls of add_anti_bot_measures, in program order.
DriverCalls == <<"execute_script", "execute_cdp_cmd", "set_window_size">>

\* Line 294.
languages == {"en-US", "en-GB", "fr-FR", "de-DE", "es-ES", "it-IT"}

\* Lines 301-302.
widths == {1366, 1440, 1536, 1600, 1920, 2048, 2560}

heights == {768, 900, 1024, 1050, 1080, 1200, 1440}

\* A driver call wrapped in a handler that keeps what the call raises.
driver_call_guarded(name, faults) == "ok"

\* What a call on the driver does: it raises when the driver fails it.
driver_call(name, faults) == IF name \in faults THEN "raise" ELSE "ok"

\* The call raised and nothing catches it: the caller gets the exception.
PrepRaises ==
    /\ prep_pc' = "raised"
    /\ prep_out' = Raised("WebDriverException")
    /\ UNCHANGED prep_calls

\* Line 291: the webdriver property is masked.
MaskWebdriver ==
    /\ prep_pc = "start"
    /\ IF driver_call("execute_script", prep_faults) = "raise"
       THEN PrepRaises
       ELSE /\ prep_calls' = Append(prep_calls, [call |-> "execute_script"])
            /\ prep_pc' = "masked"
            /\ UNCHANGED prep_out
    /\ UNCHANGED prep_faults
    /\ UNCHANGED <<retryVars, pageVars, proxyVars, parseVars, sessionVars,
                   deadlineVars, threadVars, rotateVars, passVars, sentVars>>

\* Lines 294-298: the user agent and a random language are set.
OverrideUserAgent ==
    /\ prep_pc = "masked"
    /\ IF driver_call("execute_cdp_cmd", prep_faults) = "raise"
       THEN PrepRaises
       ELSE /\ \E l \in languages :
                  prep_calls' = Append(prep_calls, [call |-> "execute_cdp_cmd",
                                                    acceptLanguage |-> l])
            /\ prep_pc' = "overridden"
            /\ UNCHANGED prep_out
    /\ UNCHANGED prep_faults
    /\ UNCHANGED <<retryVars, pageVars, proxyVars, parseVars, sessionVars,
                   deadlineVars, threadVars, rotateVars, passVars, sentVars>>

\* Lines 301-307: the window gets a random size and the driver is returned.
ResizeWindow ==
    /\ prep_pc = "overridden"
    /\ IF driver_call("set_window_size", prep_faults) = "raise"
       THEN PrepRaises
       ELSE /\ \E w \in widths, h \in heights :
                  prep_calls' = Append(prep_calls, [call |-> "set_window_size",
                                                    width |-> w, height |-> h])
            /\ prep_pc' = "returned"
            /\ prep_out' = [kind |-> "driver"]
    /\ UNCHANGED prep_faults
    /\ UNCHANGED <<retryVars, pageVars, proxyVars, parseVars, sessionVars,
                   deadlineVars, threadVars, rotateVars, passVars, sentVars>>

\* add_anti_bot_measures is called on a driver that fails some of the calls.
InitPrep ==
    /\ prep_pc = "start"
    /\ prep_faults \in SUBSET Range(DriverCalls)
    /\ prep_calls = <<>>
    /\ prep_out = None
    /\ RetryIdle /\ PageIdle /\ ProxyIdle /\ ParseIdle
    /\ SessionIdle /\ DeadlineIdle /\ ThreadsIdle /\ RotateIdle /\ PassIdle
    /\ SentIdle

NextPrep ==
    \/ MaskWebdriver
    \/ OverrideUserAgent
    \/ ResizeWindow

SpecPrep == InitPrep /\ [][NextPrep]_vars

(***************************************************************************)
(* parse_reviews (bestbuy_review_scraper.py 334-476).                      *)
(*                                                                         *)
(* The document is a sequence of nodes in document order; each node names  *)
(* its parent (0 at the top level) and holds leaf elements (kids) of its   *)
(* own: tags with a text, or bare strings ("#text").                       *)
(***************************************************************************)

MaxNodes == 3

\* The title given to a fragment that has no title element, line 386.
NoTitle == <<"No", " ", "Title">>

\* str.strip() at the left end.
RECURSIVE LStrip(_)
LStrip(s) == IF s # <<>> /\ Head(s) = " " THEN LStrip(Tail(s)) ELSE s

\* str.strip() at the right end.
RECURSIVE RStrip(_)
RStrip(s) ==
    IF s # <<>> /\ s[Len(s)] = " " THEN RStrip(SubSeq(s, 1, Len(s) - 1)) ELSE s

\* str.strip().
Strip(s) == RStrip(LStrip(s))

\* str.replace(old, new, 1).
ReplaceFirst(s, old, new) ==
    IF ~ Contains(old, s) THEN s
    ELSE LET i == CHOOSE i \in 0..(Len(s) - Len(old)) :
                     /\ SubSeq(s, i + 1, i + Len(old)) = old
                     /\ \A j \in 0..(i - 1) : SubSeq(s, j + 1, j + Len(old)) # old
         IN  SubSeq(s, 1, i) \o new \o SubSeq(s, i + Len(old) + 1, Len(s))

\* " ".join(classes): the class attribute as one string.
RECURSIVE JoinClasses(_)
JoinClasses(cs) ==
    IF cs = <<>> THEN <<>>
    ELSE IF Len(cs) = 1 THEN cs[1]
    ELSE cs[1] \o <<" ">> \o JoinClasses(Tail(cs))

Kid(tag, cls, text) == [tag |-> tag, cls |-> cls, text |-> text]

Shape(tag, cls, kids) == [tag |-> tag, cls |-> cls, kids |-> kids]

\* The nodes a product page is built of here.
NodeShapes ==
    { Shape("div", << <<"review", "-", "item">> >>,
            << Kid("h3", <<>>, <<"Great", " ", "TV">>),
               Kid("p", <<>>, <<" ", "Love", " ", "it">>),
               Kid("span", << <<"review", "-", "date">> >>,
                   <<"March", " ", "31", ",", " ", "2025">>),
               Kid("#text", <<>>, <<"4.2", " ", "out", " ", "of", " ", "5">>) >>),
      Shape("div", << <<"customer", "-", "review">> >>, <<>>),
      Shape("article", << <<"review">> >>,
            << Kid("#text", <<>>, <<"Nice">>),
               Kid("i", << <<"star">>, <<"filled">> >>, <<>>),
               Kid("i", << <<"star">> >>, <<>>),
               Kid("time", << <<"when">> >>, <<"2025", "-", "04", "-", "01">>) >>),
      Shape("section", << <<"rating">> >>,
            << Kid("h3", <<>>, <<"No", " ", "Title">>) >>),
      Shape("div", << <<"rating", "s", "-", "review", "s">> >>, <<>>),
      Shape("div", << <<"ad">> >>,
            << Kid("#text", <<>>, <<"Buy", " ", "TV">>),
               Kid("strong", <<>>, <<"TV">>),
               Kid("a", << <<"user", "-", "name">> >>, <<"Ann">>),
               Kid("span", << <<"date">> >>,
                   <<"February", " ", "31", ",", " ", "2025">>) >>),
      Shape("div", << <<"review", "-", "list", "-", "item">> >>,
            << Kid("span", <<>>, <<" ">>) >>) }

\* The documents: up to MaxNodes nodes, each at the top level or under the
\* first node.
Documents ==
    UNION { { [i \in 1..n |-> [tag |-> sh[i].tag, cls |-> sh[i].cls,
                               kids |-> sh[i].kids, parent |-> par[i]]] :
                sh \in [1..n -> NodeShapes],
                par \in {q \in [1..n -> {0, 1}] : \A i \in 1..n : q[i] < i} }
            : n \in 0..MaxNodes }

\* Whether node i lies under node a.
RECURSIVE IsUnder(_, _, _)
IsUnder(doc, i, a) ==
    /\ doc[i].parent # 0
    /\ (doc[i].parent = a \/ IsUnder(doc, doc[i].parent, a))

HasClass(n, c) == \E k \in 1..Len(n.cls) : n.cls[k] = c

\* review_selectors, lines 346-353.
review_selectors ==
    << "div.review-item", "div.review-list-item", "div[class*='review']",
       "div.customer-review", "article.review", "div.ratings-reviews div" >>

\* Whether node i of doc matches a CSS selector of review_selectors.
Matches(doc, i, sel) ==
    CASE sel = "div.review-item" ->
            doc[i].tag = "div" /\ HasClass(doc[i], <<"review", "-", "item">>)
      [] sel = "div.review-list-item" ->
            /\ doc[i].tag = "div"
            /\ HasClass(doc[i], <<"review", "-", "list", "-", "item">>)
      [] sel = "div[class*='review']" ->
            /\ doc[i].tag = "div"
            /\ Contains(<<"review">>, JoinClasses(doc[i].cls))
      [] sel = "div.customer-review" ->
            doc[i].tag = "div" /\ HasClass(doc[i], <<"customer", "-", "review">>)
      [] sel = "article.review" ->
            doc[i].tag = "article" /\ HasClass(doc[i], <<"review">>)
      [] sel = "div.ratings-reviews div" ->
            /\ doc[i].tag = "div"
            /\ \E a \in 1..Len(doc) :
                  /\ IsUnder(doc, i, a)
                  /\ doc[a].tag = "div"
                  /\ HasClass(doc[a], <<"rating", "s", "-", "review", "s">>)

\* Lines 365-366: a div, article or section one of whose classes holds review,
\* rating or comment.
MatchesGeneric(doc, i) ==
    /\ doc[i].tag \in {"div", "article", "section"}
    /\ \E k \in 1..Len(doc[i].cls) :
          \E x \in {<<"review">>, <<"rating">>, <<"comment">>} :
              Contains(x, doc[i].cls[k])

\* The nodes from the i-th on that match sel (a CSS selector, or the class-based
\* search), in document order.
RECURSIVE Pick(_, _, _)
Pick(doc, sel, i) ==
    IF i > Len(doc) THEN <<>>
    ELSE (IF (IF sel = "generic" THEN MatchesGeneric(doc, i) ELSE Matches(doc, i, sel))
          THEN <<i>> ELSE <<>>)
         \o Pick(doc, sel, i + 1)

\* soup.select(selector): the matching nodes in document order.
select(doc, sel) == Pick(doc, sel, 1)

\* soup.find_all(["div", "article", "section"], class_=...), lines 365-366.
find_all_generic(doc) == Pick(doc, "generic", 1)

\* A loop over the selectors that keeps the last non-empty match set.
RECURSIVE first_match_keeps_last(_, _)
first_match_keeps_last(doc, k) ==
    IF k > Len(review_selectors) THEN <<>>
    ELSE LET rest == first_match_keeps_last(doc, k + 1)
         IN  IF rest # <<>> THEN rest ELSE select(doc, review_selectors[k])

\* Lines 355-361: the first selector, from the k-th on, with a non-empty match
\* set gives all_reviews.
RECURSIVE first_match(_, _)
first_match(doc, k) ==
    IF k > Len(review_selectors) THEN <<>>
    ELSE IF select(doc, review_selectors[k]) # <<>>
         THEN select(doc, review_selectors[k])
         ELSE first_match(doc, k + 1)

\* A search that takes every node of the page for a review.
locate_reviews_any(doc) == [i \in 1..Len(doc) |-> i]

\* Lines 355-369: the selectors, then the class-based search.
locate_reviews(doc) ==
    IF first_match(doc, 1) # <<>> THEN first_match(doc, 1)
    ELSE find_all_generic(doc)

\* The children of node i, in document order.
RECURSIVE ChildrenFrom(_, _, _)
ChildrenFrom(doc, i, j) ==
    IF j > Len(doc) THEN <<>>
    ELSE (IF doc[j].parent = i THEN <<j>> ELSE <<>>) \o ChildrenFrom(doc, i, j + 1)

\* get_text(strip=True) of a sequence of leaf elements: every string stripped,
\* the empty ones dropped, the rest joined.
RECURSIVE KidsText(_)
KidsText(kids) ==
    IF kids = <<>> THEN <<>> ELSE Strip(kids[1].text) \o KidsText(Tail(kids))

\* node.get_text(strip=True): the strings of the node and of the nodes under it.
RECURSIVE FullText(_, _)
FullText(doc, i) ==
    LET ch == ChildrenFrom(doc, i, i + 1)
    IN  KidsText(doc[i].kids)
        \o Concat([k \in 1..Len(ch) |-> FullText(doc, ch[k])])

\* The elements and strings under node i in document order, each with the text
\* get_text(strip=True) gives for it.
RECURSIVE Descendants(_, _)
Descendants(doc, i) ==
    LET ch == ChildrenFrom(doc, i, i + 1)
    IN  [k \in 1..Len(doc[i].kids) |->
            Kid(doc[i].kids[k].tag, doc[i].kids[k].cls, Strip(doc[i].kids[k].text))]
        \o Concat([k \in 1..Len(ch) |->
                      <<Kid(doc[ch[k]].tag, doc[ch[k]].cls, FullText(doc, ch[k]))>>
                      \o Descendants(doc, ch[k])])

\* review.find_all(tags): the elements under the node with one of the tags.
RECURSIVE FindAll(_, _)
FindAll(elems, tags) ==
    IF elems = <<>> THEN <<>>
    ELSE (IF elems[1].tag \in tags THEN <<elems[1]>> ELSE <<>>)
         \o FindAll(Tail(elems), tags)

title_tags == <<"h3", "h4", "h5", "strong", "span", "div">>

\* Lines 379-386: the first element of the first tag of title_tags that occurs.
RECURSIVE title_from(_, _)
title_from(elems, k) ==
    IF k > Len(title_tags) THEN NoTitle
    ELSE IF FindAll(elems, {title_tags[k]}) # <<>>
         THEN FindAll(elems, {title_tags[k]})[1].text
         ELSE title_from(elems, k + 1)

extract_title(doc, i) == title_from(Descendants(doc, i), 1)

\* Lines 389-395: the longest text among the p elements and the elements of
\* class content; the first one wins a tie.
RECURSIVE longest_text(_, _)
longest_text(cands, best) ==
    IF cands = <<>> THEN best
    ELSE longest_text(Tail(cands),
             IF /\ \/ cands[1].tag = "p"
                   \/ \E k \in 1..Len(cands[1].cls) : cands[1].cls[k] = <<"content">>
                /\ Len(cands[1].text) > Len(best)
             THEN cands[1].text ELSE best)

\* Lines 389-401: the review text, with the whole text of the fragment less its
\* title as the fallback.
extract_text(doc, i) ==
    LET found == longest_text(FindAll(Descendants(doc, i), {"p", "div", "span"}), <<>>)
        title == extract_title(doc, i)
        whole == FullText(doc, i)
    IN  IF found # <<>> THEN found
        ELSE IF Contains(title, whole)
             THEN Strip(ReplaceFirst(whole, title, <<>>))
             ELSE whole

\* A rule that keeps a fragment only when it has both a text and a title.
keep_record_both(title, text) == text # <<>> /\ title # NoTitle

\* Line 461: if review_text or title != "No Title".
keep_record(title, text) == text # <<>> \/ title # NoTitle

\* class_=lambda c: c and any(x in c for x in words): some class of the element
\* holds one of the words.
ClassHasAny(e, words) ==
    \E k \in 1..Len(e.cls) : \E x \in words : Contains(x, e.cls[k])

\* review.find_all(tags, class_=...): the elements with one of the tags and a
\* class that holds one of the words.
RECURSIVE FindAllClass(_, _, _)
FindAllClass(elems, tags, words) ==
    IF elems = <<>> THEN <<>>
    ELSE (IF elems[1].tag \in tags /\ ClassHasAny(elems[1], words)
          THEN <<elems[1]>> ELSE <<>>)
         \o FindAllClass(Tail(elems), tags, words)

Unknown == <<"Unknown">>

\* The month names of %B, in the spellings at hand (strptime does not look at
\* the case), with their number and their number of days (the years at hand
\* are not leap years).
Months ==
    [name : {"February", "february"}, num : {"02"}, days : {28}]
    \cup [name : {"March", "march"}, num : {"03"}, days : {31}]
    \cup [name : {"April", "april"}, num : {"04"}, days : {30}]

\* The day numbers of %d, with what %d prints for them.
Days ==
    [text : {"1"}, val : {1}, out : {"01"}]
    \cup [text : {"01"}, val : {1}, out : {"01"}]
    \cup [text : {"30"}, val : {30}, out : {"30"}]
    \cup [text : {"31"}, val : {31}, out : {"31"}]

Years == {"2024", "2025"}

\* datetime.strptime(s, "%B %d, %Y") does not raise.
ParsesLongDate(s) ==
    /\ Len(s) = 6
    /\ s[2] = " " /\ s[4] = "," /\ s[5] = " "
    /\ s[6] \in Years
    /\ \E m \in Months, d \in Days :
          s[1] = m.name /\ s[3] = d.text /\ d.val <= m.days

\* What a statement gives when it raises ValueError.
ValueError == <<"ValueError">>

\* datetime.strptime(s, "%B %d, %Y"): year, month and day, or ValueError.
strptime(s) ==
    IF ParsesLongDate(s)
    THEN LET m == CHOOSE m \in Months : m.name = s[1]
             d == CHOOSE d \in Days : d.text = s[3]
         IN  <<s[6], m.num, d.out>>
    ELSE ValueError

\* date_obj.strftime("%Y-%m-%d").
strftime(date_obj) == <<date_obj[1], "-", date_obj[2], "-", date_obj[3]>>

\* strftime("%Y-%m-%d") of the parsed date.
FormatIso(s) == strftime(strptime(s))

\* Lines 411-425 without the handler of lines 424-425.
normalize_date_unguarded(date_str) ==
    IF date_str = <<>> THEN Unknown
    ELSE IF Contains(<<",">>, date_str)
         THEN (IF strptime(date_str) = ValueError THEN ValueError
               ELSE strftime(strptime(date_str)))
         ELSE date_str

\* Lines 411-425: a string with a comma is parsed as a long date, and the
\* handler of lines 424-425 keeps the string when the parse raises; a string
\* without a comma is kept, with a dash (line 420) or without (line 423).
normalize_date(date_str) ==
    IF date_str = <<>> THEN Unknown
    ELSE IF Contains(<<",">>, date_str)
         THEN (IF strptime(date_str) = ValueError THEN date_str
               ELSE strftime(strptime(date_str)))
         ELSE date_str

\* Lines 404-410: the text of the first date element, or the empty string.
date_str_of(doc, i) ==
    LET cands == FindAllClass(Descendants(doc, i), {"time", "span", "div"},
                              {<<"date">>, <<"time">>, <<"when">>})
    IN  IF cands # <<>> THEN cands[1].text ELSE <<>>

\* Lines 404-425: the date of the record.
extract_date(doc, i) == normalize_date(date_str_of(doc, i))

\* The strings under node i, in document order.
RECURSIVE Strings(_, _)
Strings(doc, i) ==
    LET ch == ChildrenFrom(doc, i, i + 1)
    IN  [k \in 1..Len(doc[i].kids) |-> doc[i].kids[k].text]
        \o Concat([k \in 1..Len(ch) |-> Strings(doc, ch[k])])

\* The numbers re.findall(r'\d+\.\d+|\d+', s) may find, with their value in
\* tenths.
Numbers ==
    [text : {"4.2"}, tenths : {42}]
    \cup [text : {"4"}, tenths : {40}]
    \cup [text : {"5"}, tenths : {50}]
    \cup [text : {"31"}, tenths : {310}]
    \cup [text : {"2025"}, tenths : {20250}]

IsNumber(a) == \E n \in Numbers : n.text = a

\* float(numbers[0]), in tenths; -1 when the string holds no number.
RECURSIVE FirstNumber(_)
FirstNumber(t) ==
    IF t = <<>> THEN -1
    ELSE IF IsNumber(t[1]) THEN (CHOOSE n \in Numbers : n.text = t[1]).tenths
    ELSE FirstNumber(Tail(t))

\* Lines 438-449: the first number of the first rating string that holds one;
\* 0 when there is none.
RECURSIVE numeric_rating(_)
numeric_rating(strings) ==
    IF strings = <<>> THEN 0
    ELSE IF /\ \E x \in {<<"/", "5">>, <<"out", " ", "of", " ", "5">>, <<"stars">>} :
                  Contains(x, strings[1])
            /\ FirstNumber(strings[1]) >= 0
         THEN FirstNumber(strings[1])
         ELSE numeric_rating(Tail(strings))

\* An extraction that looks at the text first and counts stars only when the
\* text gives nothing.
extract_rating_text_first(doc, i) ==
    LET stars == FindAllClass(Descendants(doc, i), {"span", "i", "div"},
                              {<<"star">>, <<"rating">>, <<"filled">>})
    IN  IF numeric_rating(Strings(doc, i)) # 0
        THEN numeric_rating(Strings(doc, i))
        ELSE 10 * Len(stars)

\* Lines 427-449: the rating, in tenths of a star: the number of star elements,
\* or else the number read from the text.
extract_rating(doc, i) ==
    LET stars == FindAllClass(Descendants(doc, i), {"span", "i", "div"},
                              {<<"star">>, <<"rating">>, <<"filled">>})
    IN  IF Len(stars) # 0 THEN 10 * Len(stars)
        ELSE numeric_rating(Strings(doc, i))

\* Lines 451-458.
extract_name(doc, i) ==
    LET cands == FindAllClass(Descendants(doc, i), {"span", "div", "a"},
                              {<<"author">>, <<"reviewer">>, <<"name">>, <<"user">>})
    IN  IF cands # <<>> THEN cands[1].text ELSE <<"Anonymous">>

\* Lines 462-470: the record of fragment i.
Record(id, doc, i) ==
    [review_id |-> id,
     title |-> extract_title(doc, i),
     review_text |-> extract_text(doc, i),
     date |-> extract_date(doc, i),
     rating |-> extract_rating(doc, i),
     source |-> "BestBuy Canada",
     reviewer_name |-> extract_name(doc, i)]

\* Lines 342-371: the fragments to parse are located.
LocateReviews ==
    /\ parse_pc = "start"
    /\ all_reviews' = locate_reviews(document)
    /\ pos' = 1
    /\ parse_pc' = "loop"
    /\ UNCHANGED <<document, reviews, next_id, processed>>
    /\ UNCHANGED <<retryVars, pageVars, proxyVars, sessionVars,
                   deadlineVars, threadVars, prepVars,
                   rotateVars, passVars, sentVars>>

\* An except clause that leaves the loop.
after_error_break(p, fragments) == Len(fragments) + 1

\* Lines 472-474: the except clause logs and continues with the next fragment.
after_error(p, fragments) == p + 1

\* A collection that takes a new record in at its head.
prepended(rs, r) == <<r>> \o rs

\* Line 462: self.reviews.append(...).
appended(rs, r) == Append(rs, r)

\* Lines 373-474: one pass of the loop over all_reviews. An exception in the
\* extraction is logged and the loop goes on (lines 472-474).
ParseOne ==
    /\ parse_pc = "loop"
    /\ pos <= Len(all_reviews)
    /\ LET f == all_reviews[pos]
           title == extract_title(document, f)
           text == extract_text(document, f)
       IN  \/ /\ processed' = Append(processed, [node |-> f, status |-> "error"])
              /\ pos' = after_error(pos, all_reviews)
              /\ UNCHANGED <<reviews, next_id>>
           \/ /\ next_id' = next_id + 1
              /\ pos' = pos + 1
              /\ IF keep_record(title, text)
                 THEN /\ reviews' = appended(reviews, Record(next_id, document, f))
                      /\ processed' =
                             Append(processed, [node |-> f, status |-> "appended"])
                 ELSE /\ UNCHANGED reviews
                      /\ processed' =
                             Append(processed, [node |-> f, status |-> "discarded"])
    /\ UNCHANGED <<document, all_reviews, parse_pc>>
    /\ UNCHANGED <<retryVars, pageVars, proxyVars, sessionVars,
                   deadlineVars, threadVars, prepVars,
                   rotateVars, passVars, sentVars>>

\* Line 476: the loop is over.
ParseFinish ==
    /\ parse_pc = "loop"
    /\ pos > Len(all_reviews)
    /\ parse_pc' = "done"
    /\ UNCHANGED <<document, all_reviews, pos, reviews, next_id, processed>>
    /\ UNCHANGED <<retryVars, pageVars, proxyVars, sessionVars,
                   deadlineVars, threadVars, prepVars,
                   rotateVars, passVars, sentVars>>

InitParse ==
    /\ document \in Documents
    /\ all_reviews = <<>>
    /\ pos = 0
    /\ reviews = <<>>
    /\ parse_pc = "start"
    /\ next_id = 1
    /\ processed = <<>>
    /\ RetryIdle /\ PageIdle /\ ProxyIdle /\ RestIdle

NextParse ==
    \/ LocateReviews
    \/ ParseOne
    \/ ParseFinish

SpecParse == InitParse /\ [][NextParse]_vars

(***************************************************************************)
(* parse_reviews on fragments that differ in their date and rating parts.  *)
(***************************************************************************)

MaxKids == 2

\* The texts a date element may hold.
DateTexts ==
    { <<"March", " ", "31", ",", " ", "2025">>,
      <<" ", "march", " ", "1", ",", " ", "2024">>,
      <<"February", " ", "31", ",", " ", "2025">>,
      <<"Mar", " ", "31", ",", " ", "2025">>,
      <<"Reviewed", " ", "March", " ", "31", ",", " ", "2025">>,
      <<"2025", "-", "04", "-", "01">>,
      <<"yesterday">>,
      <<>> }

\* The texts that speak, or do not speak, of a rating.
RatingTexts ==
    { <<"4.2", " ", "out", " ", "of", " ", "5">>,
      <<"4", "/", "5">>,
      <<"5", " ", "stars">>,
      <<"31", " ", "days", " ", "ago", ":", " ", "4.2", " ", "out", " ", "of", " ", "5">>,
      <<"out", " ", "of", " ", "5">>,
      <<"stars">>,
      <<"Nice">> }

\* The parts a fragment is made of: date elements, star elements and strings.
FieldKids ==
    {Kid("span", << <<"review", "-", "date">> >>, t) : t \in DateTexts}
    \cup {Kid("i", << <<"star">>, <<"filled">> >>, <<>>),
          Kid("span", << <<"rating">> >>, <<>>)}
    \cup {Kid("#text", <<>>, t) : t \in RatingTexts}

\* The pages: one review fragment with up to MaxKids parts.
FieldDocuments ==
    UNION { { << [tag |-> "div", cls |-> << <<"review", "-", "item">> >>,
                  kids |-> ks, parent |-> 0] >> : ks \in [1..n -> FieldKids] }
            : n \in 0..MaxKids }

InitFields ==
    /\ document \in FieldDocuments
    /\ all_reviews = <<>>
    /\ pos = 0
    /\ reviews = <<>>
    /\ parse_pc = "start"
    /\ next_id = 1
    /\ processed = <<>>
    /\ RetryIdle /\ PageIdle /\ ProxyIdle /\ RestIdle

SpecFields == InitFields /\ [][NextParse]_vars

(***************************************************************************)
(* scrape_product_reviews (bestbuy_review_scraper.py 489-520) and the      *)
(* methods it calls in turn: navigate_to_product, select_filter,           *)
(* load_all_reviews, parse_reviews and save_to_csv.                        *)
(***************************************************************************)

MaxReviews == 2

MaxSessionNodes == 3

\* load_all_reviews' max_attempts, line 272.
max_attempts == 5

\* The pages at product_url: review nodes at the top level.
SessionDocuments ==
    UNION { { [i \in 1..n |-> [tag |-> sh[i].tag, cls |-> sh[i].cls,
                               kids |-> sh[i].kids, parent |-> 0]] :
                sh \in [1..n -> NodeShapes] }
            : n \in 0..MaxSessionNodes }

\* What the browser finds: whether a body element shows up within the timeout,
\* and whether a 'Show More' control is there, displayed and enabled.
Sites == [body : BOOLEAN, button : BOOLEAN]

\* The node a click on 'Show More' adds to the page.
MoreReview ==
    [tag |-> "div", cls |-> << <<"review", "-", "item">> >>,
     kids |-> << Kid("p", <<>>, <<"More">>) >>, parent |-> 0]

\* The value scrape_product_reviews hands back when save_to_csv built a frame.
DataFrame(rows) == [kind |-> "DataFrame", rows |-> rows]

\* load_all_reviews' review_selectors, lines 237-243.
load_selectors ==
    << ".review-item", ".review-list-item", "[class*='review']",
       ".customer-review", ".ratings-reviews" >>

\* Whether an element with the classes cls matches a selector of
\* load_selectors.
LoadMatches(cls, sel) ==
    CASE sel = ".review-item" ->
            \E k \in 1..Len(cls) : cls[k] = <<"review", "-", "item">>
      [] sel = ".review-list-item" ->
            \E k \in 1..Len(cls) : cls[k] = <<"review", "-", "list", "-", "item">>
      [] sel = "[class*='review']" -> Contains(<<"review">>, JoinClasses(cls))
      [] sel = ".customer-review" ->
            \E k \in 1..Len(cls) : cls[k] = <<"customer", "-", "review">>
      [] sel = ".ratings-reviews" ->
            \E k \in 1..Len(cls) : cls[k] = <<"rating", "s", "-", "review", "s">>
      [] OTHER -> FALSE

\* The class lists of the elements of the page: every node and every element
\* inside it.
ElementClasses(doc) ==
    Concat([i \in 1..Len(doc) |->
              <<doc[i].cls>>
              \o [k \in 1..Len(doc[i].kids) |-> doc[i].kids[k].cls]])

\* len(driver.find_elements(By.CSS_SELECTOR, sel)).
CountElements(doc, sel) ==
    Cardinality({i \in 1..Len(ElementClasses(doc)) :
                    LoadMatches(ElementClasses(doc)[i], sel)})

\* Lines 246-252: the first selector that finds an element, from the k-th on.
RECURSIVE find_working_selector(_, _)
find_working_selector(doc, k) ==
    IF k > Len(load_selectors) THEN "None"
    ELSE IF CountElements(doc, load_selectors[k]) > 0 THEN load_selectors[k]
    ELSE find_working_selector(doc, k + 1)

\* Calling random_sleep, declared at line 65 with no parameter beside self,
\* with nargs arguments.
random_sleep(nargs) == IF nargs = 0 THEN "ok" ELSE "TypeError"

\* Lines 294-310: whether some 'Show More' control gets clicked. For a control
\* that is displayed and enabled the code scrolls to it and calls
\* self.random_sleep(1, 2) before element.click(); the bare except of line 309
\* takes what that call raises and the loop goes to the next selector.
click_show_more(st) == st.button /\ random_sleep(2) = "ok"

\* Lines 518-520: an exception anywhere in the session is logged and None is
\* returned.
SessionRaises ==
    /\ s_pc' = "returned"
    /\ ret' = None
    /\ fail' = "error"

\* The XPath of line 93: a div whose class attribute holds customer-reviews or
\* whose text holds Customer Reviews.
has_customer_reviews(doc) ==
    \E i \in 1..Len(doc) :
        /\ doc[i].tag = "div"
        /\ \/ Contains(<<"customer", "-", "review", "s">>, JoinClasses(doc[i].cls))
           \/ \E k \in 1..Len(doc[i].kids) :
                  /\ doc[i].kids[k].tag = "#text"
                  /\ Contains(<<"Customer", " ", "Reviews">>, doc[i].kids[k].text)

\* The XPath of line 109: a section whose class attribute holds rating or
\* review.
has_ratings_section(doc) ==
    \E i \in 1..Len(doc) :
        /\ doc[i].tag = "section"
        /\ \/ Contains(<<"rating">>, JoinClasses(doc[i].cls))
           \/ Contains(<<"review">>, JoinClasses(doc[i].cls))

\* What navigate_to_product returns, lines 76-132: False without a body
\* element; else True, after the reviews section, the ratings section or a
\* plain scroll.
navigate_to_product(st, doc) ==
    IF ~ st.body THEN FALSE
    ELSE IF has_customer_reviews(doc) THEN TRUE
    ELSE IF has_ratings_section(doc) THEN TRUE
    ELSE TRUE

\* What select_filter may return, lines 183-221: True when a filter control and
\* the wanted option took a click, False otherwise.
select_filter == BOOLEAN

\* A session that ends when the filter could not be selected.
after_filter_checked(found) == IF found THEN "filtered" ELSE "returned"

\* Line 507: self.select_filter(filter_option); the result is dropped.
after_filter(found) == "filtered"

\* navigate_to_product, lines 69-132, and lines 503-504: on False the session
\* returns None.
Navigate ==
    /\ s_pc = "start"
    /\ ops' = Append(ops, "navigate_to_product")
    /\ \/ SessionRaises
       \/ /\ ~ navigate_to_product(site, document)
          /\ s_pc' = "returned"
          /\ ret' = None
          /\ fail' = "navigation"
       \/ /\ navigate_to_product(site, document)
          /\ s_pc' = "navigated"
          /\ UNCHANGED <<ret, fail>>
    /\ UNCHANGED <<max_reviews, site, hidden, working_selector, attempts, clicks>>
    /\ UNCHANGED <<retryVars, pageVars, proxyVars, parseVars,
                   deadlineVars, threadVars, prepVars,
                   rotateVars, passVars, sentVars>>

\* A session that may select the filter over again.
SelectFilter_repeating ==
    /\ s_pc = "navigated"
    /\ ops' = Append(ops, "select_filter")
    /\ s_pc' \in {"navigated", "filtered"}
    /\ Len(ops) < 6
    /\ UNCHANGED <<max_reviews, ret, fail, site, hidden, working_selector,
                   attempts, clicks>>
    /\ UNCHANGED <<retryVars, pageVars, proxyVars, parseVars,
                   deadlineVars, threadVars, prepVars,
                   rotateVars, passVars, sentVars>>

\* select_filter, lines 134-221, and line 507: its result is not looked at, and
\* its own handler (lines 219-221) keeps every exception.
SelectFilter ==
    /\ s_pc = "navigated"
    /\ ops' = Append(ops, "select_filter")
    /\ \E found \in select_filter : s_pc' = after_filter(found)
    /\ UNCHANGED <<max_reviews, ret, fail, site, hidden, working_selector,
                   attempts, clicks>>
    /\ UNCHANGED <<retryVars, pageVars, proxyVars, parseVars,
                   deadlineVars, threadVars, prepVars,
                   rotateVars, passVars, sentVars>>

\* load_all_reviews up to its loop, lines 230-273.
LoadStart ==
    /\ s_pc = "filtered"
    /\ ops' = Append(ops, "load_all_reviews")
    /\ \/ /\ SessionRaises
          /\ UNCHANGED <<working_selector, attempts>>
       \/ /\ working_selector' = find_working_selector(document, 1)
          /\ attempts' = 0
          /\ s_pc' = "loading"
          /\ UNCHANGED <<ret, fail>>
    /\ UNCHANGED <<max_reviews, site, hidden, clicks>>
    /\ UNCHANGED <<retryVars, pageVars, proxyVars, parseVars,
                   deadlineVars, threadVars, prepVars,
                   rotateVars, passVars, sentVars>>

\* One pass of the loop of lines 275-328.
LoadRound ==
    /\ s_pc = "loading"
    /\ attempts < max_attempts
    /\ attempts' = attempts + 1
    /\ LET current_reviews ==
               IF working_selector # "None"
               THEN CountElements(document, working_selector) ELSE 0
           grown == document \o <<Head(hidden)>>
       IN  \/ \* lines 326-328: an exception in the pass ends the loop
              /\ s_pc' = "load_error"
              /\ UNCHANGED <<document, hidden, clicks>>
           \/ IF max_reviews # 0 /\ current_reviews >= max_reviews
              THEN \* lines 288-290
                   /\ s_pc' = "load_exit"
                   /\ UNCHANGED <<document, hidden, clicks>>
              ELSE IF ~ click_show_more(site)
              THEN \* lines 312-314
                   /\ s_pc' = "load_exit"
                   /\ UNCHANGED <<document, hidden, clicks>>
              ELSE \* lines 302-305 and 317-324
                   /\ clicks' = clicks + 1
                   /\ IF hidden # <<>>
                      THEN document' = grown /\ hidden' = Tail(hidden)
                      ELSE UNCHANGED <<document, hidden>>
                   /\ s_pc' =
                        IF /\ working_selector # "None"
                           /\ (hidden = <<>>
                               \/ CountElements(grown, working_selector)
                                    <= current_reviews)
                        THEN "load_exit" ELSE "loading"
    /\ UNCHANGED <<max_reviews, ops, ret, fail, site, working_selector>>
    /\ UNCHANGED <<all_reviews, pos, reviews, parse_pc, next_id, processed>>
    /\ UNCHANGED <<retryVars, pageVars, proxyVars,
                   deadlineVars, threadVars, prepVars,
                   rotateVars, passVars, sentVars>>

\* Lines 330-332, once the loop is over.
LoadEnd ==
    /\ \/ s_pc \in {"load_exit", "load_error"}
       \/ s_pc = "loading" /\ attempts >= max_attempts
    /\ \/ SessionRaises
       \/ /\ s_pc' = "loaded"
          /\ UNCHANGED <<ret, fail>>
    /\ UNCHANGED <<max_reviews, ops, site, hidden, working_selector, attempts,
                   clicks>>
    /\ UNCHANGED <<retryVars, pageVars, proxyVars, parseVars,
                   deadlineVars, threadVars, prepVars,
                   rotateVars, passVars, sentVars>>

\* parse_reviews is entered, lines 336-343: the page source is read.
StartParse ==
    /\ s_pc = "loaded"
    /\ ops' = Append(ops, "parse_reviews")
    /\ \/ /\ SessionRaises
          /\ UNCHANGED parse_pc
       \/ /\ parse_pc' = "start"
          /\ s_pc' = "parsing"
          /\ UNCHANGED <<ret, fail>>
    /\ UNCHANGED <<max_reviews, site, hidden, working_selector, attempts, clicks>>
    /\ UNCHANGED <<document, all_reviews, pos, reviews, next_id, processed>>
    /\ UNCHANGED <<retryVars, pageVars, proxyVars,
                   deadlineVars, threadVars, prepVars,
                   rotateVars, passVars, sentVars>>

\* A save_to_csv that builds a frame from an empty list as well.
save_to_csv_empty_frame(rs) == DataFrame(rs)

\* What save_to_csv returns, lines 480-487: nothing when there is no record.
save_to_csv(rs) == IF rs = <<>> THEN None ELSE DataFrame(rs)

\* save_to_csv, lines 478-487, and line 516: without records it returns at
\* once; with records it writes the file, which may fail, and returns the frame.
SaveToCsv ==
    /\ s_pc = "parsing"
    /\ parse_pc = "done"
    /\ ops' = Append(ops, "save_to_csv")
    /\ \/ /\ reviews # <<>>
          /\ SessionRaises
       \/ /\ s_pc' = "returned"
          /\ ret' = save_to_csv(reviews)
          /\ UNCHANGED fail
    /\ UNCHANGED <<max_reviews, site, hidden, working_selector, attempts, clicks>>
    /\ UNCHANGED <<retryVars, pageVars, proxyVars, parseVars,
                   deadlineVars, threadVars, prepVars,
                   rotateVars, passVars, sentVars>>

InitSession ==
    /\ max_reviews \in 0..MaxReviews
    /\ s_pc = "start"
    /\ ops = <<>>
    /\ ret = None
    /\ fail = "none"
    /\ site \in Sites
    /\ hidden \in {<<>>, <<MoreReview>>}
    /\ working_selector = "None"
    /\ attempts = 0
    /\ clicks = 0
    /\ document \in SessionDocuments
    /\ all_reviews = <<>>
    /\ pos = 0
    /\ reviews = <<>>
    /\ parse_pc = "idle"
    /\ next_id = 1
    /\ processed = <<>>
    /\ RetryIdle /\ PageIdle /\ ProxyIdle
    /\ DeadlineIdle /\ ThreadsIdle /\ PrepIdle /\ RotateIdle /\ PassIdle
    /\ SentIdle

NextSession ==
    \/ Navigate
    \/ SelectFilter
    \/ LoadStart
    \/ LoadRound
    \/ LoadEnd
    \/ StartParse
    \/ LocateReviews
    \/ ParseOne
    \/ ParseFinish
    \/ SaveToCsv

SpecSession == InitSession /\ [][NextSession]_vars

(***************************************************************************)
(* parse_reviews and save_to_csv as methods of one scraper, called one     *)
(* after the other on the pages its browser shows; self.reviews is set to  *)
(* [] at line 58 and lives as long as the scraper.                         *)
(***************************************************************************)

MaxPasses == 2
MaxPassNodes == 2

\* The nodes of these pages: a review with a title and a text, a section the
\* class-based search finds, and a node no strategy matches.
PassShapes ==
    {sh \in NodeShapes :
        sh.cls[1] \in {<<"review", "-", "item">>, <<"rating">>, <<"ad">>}}

PassDocuments ==
    UNION { { [i \in 1..n |-> [tag |-> sh[i].tag, cls |-> sh[i].cls,
                               kids |-> sh[i].kids, parent |-> 0]] :
                sh \in [1..n -> PassShapes] }
            : n \in 0..MaxPassNodes }

\* parse_reviews is called, lines 334-343: the page of the moment is read.
CallParse ==
    /\ parse_pc \in {"idle", "done"}
    /\ passes < MaxPasses
    /\ passes' = passes + 1
    /\ document' \in PassDocuments
    /\ all_reviews' = <<>>
    /\ pos' = 0
    /\ processed' = <<>>
    /\ parse_pc' = "start"
    /\ UNCHANGED <<reviews, next_id, saved>>
    /\ UNCHANGED <<retryVars, pageVars, proxyVars, sessionVars,
                   deadlineVars, threadVars, prepVars, rotateVars, sentVars>>

\* save_to_csv is called, lines 478-487; writing the file may fail.
CallSave ==
    /\ parse_pc \in {"idle", "done"}
    /\ \/ saved' = save_to_csv(reviews)
       \/ reviews # <<>> /\ saved' = Raised("OSError")
    /\ UNCHANGED passes
    /\ UNCHANGED <<retryVars, pageVars, proxyVars, parseVars, sessionVars,
                   deadlineVars, threadVars, prepVars, rotateVars, sentVars>>

\* BestBuyReviewScraper.__init__, line 58.
InitPasses ==
    /\ ParseIdle
    /\ PassIdle
    /\ RetryIdle /\ PageIdle /\ ProxyIdle
    /\ SessionIdle /\ DeadlineIdle /\ ThreadsIdle /\ PrepIdle /\ RotateIdle
    /\ SentIdle

NextPasses ==
    \/ CallParse
    \/ CallSave
    \/ LocateReviews
    \/ ParseOne
    \/ ParseFinish

SpecPasses == InitPasses /\ [][NextPasses]_vars

(***************************************************************************)
(* categorize_sentiment (review_analyzer.py 76-113) on one row of          *)
(* analyze_reviews. Scores are in hundredths, ratings in tenths of a star. *)
(***************************************************************************)

\* rating=None, line 76: the row has no rating.
NoRating == -1

\* The compound scores of a row: the thresholds 0.05 and 0.75, their
\* neighbours, and the ends of the scale.
Scores == {-100, -76, -75, -74, -6, -5, -4, 0, 4, 5, 6, 74, 75, 76, 100}

\* The ratings of a row: the extractor's 0 for a rating it could not find
\* (bestbuy_review_scraper.py 428), star counts, and numbers read from a text.
Ratings == {NoRating, 0, 10, 20, 21, 30, 39, 40, 42, 50, 310}

\* Lines 87-101: the category the compound score gives.
by_score(score) ==
    IF score >= 5
    THEN [sentiment |-> "Positive",
          specific |-> IF score >= 75
                       THEN "Highly Satisfactory & Recommended"
                       ELSE "Good Design & Quality"]
    ELSE IF score <= -5
    THEN [sentiment |-> "Negative",
          specific |-> IF score <= -75
                       THEN "Very Poor Quality & Not Recommended"
                       ELSE "Poor Quality"]
    ELSE [sentiment |-> "Neutral", specific |-> "Mixed Feelings"]

\* A categorization that takes a rating of 0 for a missing rating.
categorize_sentiment_zero_is_missing(score, stars) ==
    IF stars # NoRating /\ stars >= 40 /\ by_score(score).sentiment # "Positive"
    THEN [sentiment |-> "Positive", specific |-> "Good Design & Quality"]
    ELSE IF /\ stars # NoRating /\ stars # 0 /\ stars <= 20
            /\ by_score(score).sentiment # "Negative"
    THEN [sentiment |-> "Negative", specific |-> "Poor Quality"]
    ELSE by_score(score)

\* categorize_sentiment, lines 76-113: the score's category, adjusted by the
\* rating when there is one (lines 104-110).
categorize_sentiment(score, stars) ==
    IF stars # NoRating /\ stars >= 40 /\ by_score(score).sentiment # "Positive"
    THEN [sentiment |-> "Positive", specific |-> "Good Design & Quality"]
    ELSE IF stars # NoRating /\ stars <= 20 /\ by_score(score).sentiment # "Negative"
    THEN [sentiment |-> "Negative", specific |-> "Poor Quality"]
    ELSE by_score(score)

\* analyze_reviews, lines 142-151: the row's category is computed from its
\* compound score and its rating.
Categorize ==
    /\ sent_pc = "row"
    /\ a_out' = categorize_sentiment(a_score, a_rating)
    /\ sent_pc' = "done"
    /\ UNCHANGED <<a_score, a_rating>>
    /\ UNCHANGED <<retryVars, pageVars, proxyVars, parseVars, sessionVars,
                   deadlineVars, threadVars, prepVars, rotateVars, passVars>>

\* A row of the frame analyze_reviews goes through, lines 142-148.
InitSentiment ==
    /\ sent_pc = "row"
    /\ a_score \in Scores
    /\ a_rating \in Ratings
    /\ a_out = None
    /\ RetryIdle /\ PageIdle /\ ProxyIdle /\ ParseIdle
    /\ SessionIdle /\ DeadlineIdle /\ ThreadsIdle /\ PrepIdle
    /\ RotateIdle /\ PassIdle

NextSentiment == Categorize

SpecSentiment == InitSentiment /\ [][NextSentiment]_vars

(***************************************************************************)
(* Properties of the retry wrapper.                                        *)
(***************************************************************************)

\* C1, as stated: with max_attempts = N = max_retries, a function that raises a
\* retryable error on every invocation has been invoked exactly N times when the
\* run fails.
C1_ExactlyMaxRetriesCalls ==
    (pc = "raised" /\ all_failed /\ max_retries >= 1) => calls = max_retries

\* C1, amended: a function that raises a retryable error on every invocation is
\* invoked exactly max_retries + 1 times (one attempt and max_retries retries)
\* before the run fails, and the run does not fail before.
C1_AlwaysFailingCallsMaxRetriesPlusOne ==
    all_failed =>
        /\ calls = retries
        /\ pc \in {"loop", "raised"}
        /\ pc = "raised" => calls = max_retries + 1
        /\ pc = "loop" => calls <= max_retries

C1_Witness ==
    pc = "raised" /\ all_failed /\ max_retries = 2 /\ calls = 3

\* C2, as stated: the function is never invoked more than max_attempts =
\* max_retries times in one run.
C2_CallsWithinMaxRetries ==
    max_retries >= 1 => calls <= max_retries

\* C2, amended: the function is never invoked more than max_retries + 1 times
\* when CAPTCHA retry is off, and never more than 2 * (max_retries + 1) times
\* when it is on (each pass of the loop may re-run it once after a CAPTCHA).
C2_CallsBounded ==
    calls <= (IF retry_on_captcha THEN 2 ELSE 1) * (max_retries + 1)

C2_Witness ==
    /\ max_retries = 2
    /\ calls = 2 * (max_retries + 1)
    /\ pc = "raised"

\* C3: the i-th wait of a run is initial_wait * backoff_factor^(i-1), after a
\* retryable error and after a failed CAPTCHA handling alike.
C3_BackoffSchedule ==
    \A i \in 1..Len(sleeps) :
        sleeps[i] = initial_wait * backoff_factor ^ (i - 1)

\* C8, as stated: a result whose page is_blocked reports as blocked is never
\* returned to the caller as a success.
C8_BlockedNeverReturned ==
    (/\ pc = "returned"
     /\ retry_on_captcha
     /\ max_retries = 2
     /\ outcome.result.kind = "driver")
        => ~ is_blocked(outcome.result.page, <<>>)

\* C8, amended: the wrapper does not classify pages as blocked. A driver result
\* whose page is blocked but holds no CAPTCHA word is returned to the caller by
\* the attempt that produced it, and the wrapper requests no proxy.
C8_BlockedPageReturnedAsIs ==
    /\ (/\ result.kind = "driver"
        /\ is_blocked(result.page, <<>>)
        /\ ~ has_captcha_word(result.page))
       => (pc = "returned" /\ outcome = Returned(result))
    /\ proxy_op = "none" /\ last_proxy = "None" /\ current_proxy_index = 0

C8_Witness ==
    /\ pc = "returned"
    /\ retry_on_captcha
    /\ calls = 1
    /\ max_retries = 2
    /\ sleeps = <<>>
    /\ outcome.result.kind = "driver"
    /\ is_blocked(outcome.result.page, <<>>)

\* C9, as stated: once a CAPTCHA wait has timed out the function is not invoked
\* again.
C9_NoCallAfterCaptchaTimeout ==
    [][last_fail = "captcha" => calls' = calls]_vars

\* C9, amended: a CAPTCHA wait that times out counts one retry and is followed
\* by the backoff wait; the function is invoked again whenever the budget is not
\* exhausted, and only an exhausted budget ends the run, with the generic
\* exception. A CAPTCHA that goes away inside the timeout is followed by one
\* re-run of the function at once.
C9_TimeoutIsARetry ==
    [][/\ (pc = "polling" /\ pc' # "polling")
          => \/ /\ elapsed >= CaptchaTimeout
                /\ pc' = "loop"
                /\ retries' = retries + 1
                /\ Len(sleeps') = Len(sleeps) + 1
                /\ calls' = calls
             \/ /\ elapsed < CaptchaTimeout
                /\ pc' = "rerun"
                /\ calls' = calls
       /\ (pc = "loop" /\ last_fail = "captcha" /\ retries <= max_retries)
          => calls' = calls + 1
       /\ pc = "rerun" => (calls' = calls + 1 /\ pc' # "rerun")
       /\ (pc' = "raised" /\ last_fail' = "captcha")
          => (retries' = max_retries + 1 /\ outcome' = Raised(GenericFailure))
      ]_vars

C9_Witness ==
    /\ last_fail = "captcha"
    /\ calls = 2
    /\ retries = 1
    /\ pc = "returned"

\* C10, as stated: when the budget is exhausted the run fails with the error or
\* the classification that made the last attempt fail.
C10_FailureCarriesTrigger ==
    (pc = "raised" /\ retries > max_retries) => outcome = Raised(last_fail)

\* C10, amended: when the budget is exhausted the run never returns a value; it
\* raises. After a retryable error the error raised is that error; after a
\* failed CAPTCHA handling it is the generic exception, which carries no CAPTCHA
\* classification.
C10_ExhaustedBudgetRaises ==
    retries > max_retries =>
        /\ pc \in {"loop", "raised"}
        /\ pc = "raised" =>
              outcome = Raised(IF last_fail = "captcha"
                               THEN GenericFailure ELSE last_fail)

C10_Witness ==
    /\ pc = "raised"
    /\ retries > max_retries
    /\ last_fail = "TimeoutException"
    /\ outcome = Raised("TimeoutException")
    /\ calls = 2 * (max_retries + 1)
    /\ max_retries = 1

(***************************************************************************)
(* Properties of the proxy pool and of the page checks.                    *)
(***************************************************************************)

\* C6, as stated: get_next_proxy never returns an endpoint that is marked
\* unhealthy (its last probe failed, or a block was attributed to it), and it
\* returns a healthy endpoint whenever the pool holds one.
C6_OnlyHealthyIssued ==
    [][proxy_op' = "next" =>
          /\ last_proxy' \notin unhealthy
          /\ (Range(proxies) \ unhealthy # {}) => last_proxy' \in Endpoints
      ]_vars

\* C6, amended: get_next_proxy returns the entries of the loaded pool in
\* rotation and looks at no health mark. An endpoint whose probe failed when a
\* free-proxy pool was loaded is not in that pool and is not returned until a
\* later load takes it in; a pool loaded from the paid service is not probed,
\* and a block attributed to an endpoint does not take it out of the rotation.
C6_IssuedFromLoadedPool ==
    [][/\ (pool_source' = "free") => (Range(proxies') \cap failed_probe' = {})
       /\ (proxy_op' = "next" /\ last_proxy' \in Endpoints)
          => /\ last_proxy' \in Range(proxies)
             /\ (pool_source = "free") => last_proxy' \notin failed_probe
       /\ (proxy_op' = "next" /\ proxies # <<>>
           /\ current_proxy_index < Len(proxies))
          => /\ last_proxy' = proxies[current_proxy_index + 1]
             /\ current_proxy_index' = (current_proxy_index + 1) % Len(proxies)
      ]_vars

C6_Witness ==
    /\ proxy_op = "next"
    /\ pool_source = "free"
    /\ failed_probe # {}
    /\ Len(proxies) = 2
    /\ last_proxy \in unhealthy

\* C7, as stated: a page with a CAPTCHA marker is never classified as blocked.
C7_CaptchaNeverBlocked ==
    (cls_pc = "both" /\ captcha_detected) => ~ blocked

\* C7, amended: there is no precedence between the two checks. is_blocked
\* reports every page whose source holds a block phrase or whose status is 403
\* or 429, CAPTCHA marker or not; since the markup of every CAPTCHA marker holds
\* the word captcha, every page on which handle_captcha detects a marker is
\* reported blocked as well, and a page is_blocked lets through has no marker.
C7_CaptchaPagesAreBlocked ==
    cls_pc = "both" =>
        /\ captcha_detected => blocked
        /\ page.status \in {403, 429} => blocked
        /\ Contains(<<"access", " ", "denied">>, Lower(page.text)) => blocked

C7_Witness ==
    /\ cls_pc = "both"
    /\ captcha_detected
    /\ blocked
    /\ page.text = <<"rate", " ", "limit">>

(***************************************************************************)
(* Properties of parse_reviews.                                            *)
(***************************************************************************)

\* The k-th selector is the first whose match set is not empty.
FirstMatching(doc, k) ==
    /\ select(doc, review_selectors[k]) # <<>>
    /\ \A j \in 1..(k - 1) : select(doc, review_selectors[j]) = <<>>

\* C4: when the k-th selector is the first with a non-empty match set, the
\* fragments parsed are exactly its matches, in document order, whatever the
\* later selectors match.
C4_FirstMatchWins ==
    parse_pc \in {"loop", "done"} =>
        \A k \in 1..Len(review_selectors) :
            FirstMatching(document, k) =>
                /\ all_reviews = select(document, review_selectors[k])
                /\ [i \in 1..Len(processed) |-> processed[i].node]
                       = SubSeq(all_reviews, 1, pos - 1)
                /\ parse_pc = "done" => Len(processed) = Len(all_reviews)

C4_Witness ==
    /\ parse_pc = "done"
    /\ select(document, "div.review-item") = <<>>
    /\ select(document, "div.review-list-item") = <<>>
    /\ Len(select(document, "div[class*='review']")) = 1
    /\ Len(select(document, "article.review")) = 2
    /\ Len(processed) = 1
    /\ processed[1].node = select(document, "div[class*='review']")[1]

\* C5: a fragment whose extraction ran to its end appends no record when its
\* text is empty and its title is the "No Title" sentinel, and appends exactly
\* one record, with that title and text, in every other case.
C5_DiscardRule ==
    [][(/\ parse_pc = "loop"
        /\ pos' = pos + 1
        /\ processed'[Len(processed')].status # "error") =>
          LET title == extract_title(document, all_reviews[pos])
              text == extract_text(document, all_reviews[pos])
          IN  IF text = <<>> /\ title = NoTitle
              THEN reviews' = reviews
              ELSE /\ Len(reviews') = Len(reviews) + 1
                   /\ SubSeq(reviews', 1, Len(reviews)) = reviews
                   /\ reviews'[Len(reviews')].title = title
                   /\ reviews'[Len(reviews')].review_text = text
      ]_vars

C5_Witness ==
    /\ parse_pc = "done"
    /\ Len(processed) = 2
    /\ processed[1].status = "appended"
    /\ processed[2].status = "discarded"
    /\ Len(reviews) = 1
    /\ reviews[1].title = NoTitle
    /\ reviews[1].review_text # <<>>

(***************************************************************************)
(* Properties of scrape_product_reviews.                                   *)
(***************************************************************************)

\* The session ran parse_reviews to its end and went on to save_to_csv.
Extracted == parse_pc = "done" /\ ops # <<>> /\ ops[Len(ops)] = "save_to_csv"

C12_RecordsPreserved ==
    [][/\ Len(reviews') >= Len(reviews)
       /\ SubSeq(reviews', 1, Len(reviews)) = reviews
       /\ (parse_pc = "loop" /\ Len(processed') = Len(processed) + 1
           /\ processed'[Len(processed')].status = "error")
          => /\ reviews' = reviews
             /\ parse_pc' = "loop"
             /\ pos' = pos + 1
       /\ (parse_pc' = "done")
          => /\ Len(processed') = Len(all_reviews')
             /\ \A k \in 1..Len(processed') :
                   processed'[k].node = all_reviews'[k]
       /\ (fail' = "error" /\ fail = "none") => reviews' = reviews
      ]_vars

C12_Witness ==
    /\ s_pc = "returned"
    /\ fail = "error"
    /\ ret = None
    /\ Len(processed) = 3
    /\ processed[1].status = "appended"
    /\ processed[2].status = "error"
    /\ processed[3].status = "appended"
    /\ Len(reviews) = 2
    /\ reviews[1].review_id = 1
    /\ reviews[2].review_id = 2

\* Lines 503-516: the calls of scrape_product_reviews, in program order.
ProgramOrder ==
    << "navigate_to_product", "select_filter", "load_all_reviews",
       "parse_reviews", "save_to_csv" >>

\* C13: the methods of a session are called in program order, each at most
\* once and each after the one before it has returned: the calls made so far
\* are an initial part of navigate, select filter, load, parse, save. The
\* loading loop runs only while load_all_reviews is the last call, and
\* parse_reviews is at work only after navigation, filter selection and loading
\* have returned.
C13_ProgramOrder ==
    /\ Len(ops) <= Len(ProgramOrder)
    /\ ops = SubSeq(ProgramOrder, 1, Len(ops))
    /\ s_pc \in {"loading", "load_exit", "load_error"} => Len(ops) = 3
    /\ parse_pc \in {"start", "loop"} => Len(ops) = 4
    /\ parse_pc # "idle" => (Len(ops) >= 4 /\ s_pc \in {"parsing", "returned"})
    /\ (s_pc = "returned" /\ fail = "navigation") => Len(ops) = 1

C13_Witness ==
    /\ s_pc = "returned"
    /\ ops = ProgramOrder
    /\ ret # None
    /\ Len(ret.rows) = 2

(***************************************************************************)
(* Properties of the wrapper under an overall deadline.                    *)
(***************************************************************************)

\* C14, as stated: once the overall deadline has passed, the wrapper and
\* handle_captcha take no further step except to surface a Timeout error.
C14_NoStepAfterDeadline ==
    [][deadline_at # -1 =>
          \/ retryVars' = retryVars
          \/ pc' = "raised" /\ outcome' = Raised("TimeoutException")
      ]_vars

\* C14, amended: no overall deadline is consulted. The CAPTCHA wait is left
\* only when the CAPTCHA elements are gone or handle_captcha's own timeout is
\* reached, and a timeout counts as one retry; every backoff sleep is slept in
\* full; and, every error being retryable, the run ends in an error only when
\* the attempt budget is used up, whether or not the deadline has passed in the
\* meantime.
C14_OnlyLocalLimits ==
    [][/\ (pc = "polling" /\ pc' # "polling")
          => \/ elapsed >= CaptchaTimeout /\ pc' = "loop" /\ retries' = retries + 1
             \/ ~ detect_captcha(cur'.page) /\ pc' = "rerun"
       /\ (pc = "polling" /\ elapsed < CaptchaTimeout /\ pc' = "polling")
          => elapsed' \in {elapsed, elapsed + 1}
       /\ (Len(sleeps') = Len(sleeps) + 1)
          => sleeps'[Len(sleeps')] \in {wait_time, wait_time * backoff_factor}
       /\ (pc # "raised" /\ pc' = "raised") => retries' > max_retries
       /\ (deadline_at # -1 /\ pc' = "raised" /\ pc # "raised")
          => outcome' \in {Raised(last_fail'), Raised(GenericFailure)}
      ]_vars

C14_Witness ==
    /\ deadline_at = 1
    /\ calls = 3
    /\ Len(sleeps) = 2
    /\ last_fail = "captcha"
    /\ pc = "polling"
    /\ elapsed = CaptchaTimeout

\* C15: when the loading loop has ended without an exception, on a page with a
\* 'Show More' control that is displayed and enabled and with fewer reviews
\* loaded than max_reviews asks for, at least one click was performed.
C15_ClickableControlIsClicked ==
    (/\ s_pc = "load_exit"
     /\ site.button
     /\ (max_reviews = 0
         \/ working_selector = "None"
         \/ CountElements(document, working_selector) < max_reviews))
    => clicks >= 1

\* C16: with max_reviews = M given, the records collected and returned are
\* never more than M.
C16_AtMostMaxReviews ==
    (max_reviews # 0) =>
        /\ Len(reviews) <= max_reviews
        /\ (ret # None => Len(ret.rows) <= max_reviews)

(***************************************************************************)
(* Properties of two concurrent callers of get_next_proxy.                 *)
(***************************************************************************)

\* The place of endpoint e in the pool, counted from 0.
PlaceOf(e) == CHOOSE k \in 0..(Len(proxies) - 1) : proxies[k + 1] = e

BothDone == \A t \in Threads : t_pc[t] = "done"

\* C17, as stated: on a pool of two or more endpoints, two concurrent calls
\* take effect one after the other: the callers get two consecutive, distinct
\* endpoints and the cursor ends two places on.
C17_CursorSerialized ==
    (BothDone /\ Len(proxies) >= 2) =>
        \E k \in 0..(Len(proxies) - 1) :
            /\ {t_proxy[1], t_proxy[2]} =
                   {proxies[k + 1], proxies[((k + 1) % Len(proxies)) + 1]}
            /\ t_proxy[1] # t_proxy[2]
            /\ current_proxy_index = (k + 2) % Len(proxies)

\* C17, amended: get_next_proxy takes no lock. The cursor stays inside the
\* pool and every caller gets an endpoint of the pool, but two overlapping
\* calls may get the same endpoint, and the cursor ends one or two places past
\* the endpoint handed out first: two places when the callers got consecutive
\* endpoints, one or two when they got the same one.
C17_UnsynchronizedCursor ==
    /\ proxies # <<>> => current_proxy_index \in 0..(Len(proxies) - 1)
    /\ (BothDone /\ proxies # <<>>) =>
          \E k \in 0..(Len(proxies) - 1) :
              LET n == Len(proxies)
                  first == proxies[k + 1]
                  second == proxies[((k + 1) % n) + 1]
              IN  \/ /\ {t_proxy[1], t_proxy[2]} = {first, second}
                     /\ current_proxy_index = (k + 2) % n
                  \/ /\ t_proxy[1] = first /\ t_proxy[2] = first
                     /\ current_proxy_index \in {(k + 1) % n, (k + 2) % n}

C17_Witness ==
    /\ BothDone
    /\ Len(proxies) = 3
    /\ t_proxy[1] = t_proxy[2]
    /\ t_proxy[1] \in Endpoints
    /\ current_proxy_index = (PlaceOf(t_proxy[1]) + 1) % 3

(***************************************************************************)
(* Properties of the date and the rating of a record.                      *)
(***************************************************************************)

\* The parts of the one fragment of the page.
Parts == document[1].kids

\* The stripped text of the first part that is a date element; empty when
\* there is none.
RawDate ==
    LET ds == {k \in 1..Len(Parts) :
                  /\ Parts[k].tag \in {"time", "span", "div"}
                  /\ \E c \in 1..Len(Parts[k].cls) :
                        Contains(<<"date">>, Parts[k].cls[c])}
    IN  IF ds = {} THEN <<>>
        ELSE Strip(Parts[CHOOSE k \in ds : \A j \in ds : k <= j].text)

\* C18: the date of a record is "Unknown" when the fragment has no date string,
\* the ISO form when the string is a long-form date ("March 31, 2025" gives
\* "2025-03-31"), and the string itself in every other case, an ISO-looking
\* string and a string with a comma that does not parse included; it is never
\* the ValueError the parse raised.
C18_DateNormalized ==
    \A r \in 1..Len(reviews) :
        LET date == reviews[r].date
        IN  /\ RawDate = <<>> => date = <<"Unknown">>
            /\ RawDate = <<"March", " ", "31", ",", " ", "2025">>
                  => date = <<"2025", "-", "03", "-", "31">>
            /\ RawDate = <<"march", " ", "1", ",", " ", "2024">>
                  => date = <<"2024", "-", "03", "-", "01">>
            /\ ParsesLongDate(RawDate)
                  => /\ Len(date) = 5
                     /\ date[1] = RawDate[6] /\ date[2] = "-" /\ date[4] = "-"
            /\ (RawDate # <<>> /\ ~ ParsesLongDate(RawDate)) => date = RawDate
            /\ date # ValueError

C18_Witness ==
    /\ parse_pc = "done"
    /\ Len(reviews) = 1
    /\ RawDate = <<"February", " ", "31", ",", " ", "2025">>
    /\ reviews[1].date = RawDate

\* The number of parts that are star elements.
StarCount ==
    Cardinality({k \in 1..Len(Parts) :
                    /\ Parts[k].tag \in {"span", "i", "div"}
                    /\ \E c \in 1..Len(Parts[k].cls) :
                          \E w \in {<<"star">>, <<"rating">>, <<"filled">>} :
                              Contains(w, Parts[k].cls[c])})

\* The places of text t that hold a number.
NumberPlaces(t) == {a \in 1..Len(t) : IsNumber(t[a])}

\* The value, in tenths, of the number at place a of text t.
Tenths(t, a) == (CHOOSE n \in Numbers : n.text = t[a]).tenths

\* The places of text t that hold a number standing right before "/5" or
\* before " out of 5".
AdjacentPlaces(t) ==
    {a \in NumberPlaces(t) :
        \/ a + 2 <= Len(t) /\ SubSeq(t, a + 1, a + 2) = <<"/", "5">>
        \/ /\ a + 6 <= Len(t)
           /\ SubSeq(t, a + 1, a + 6) = <<" ", "out", " ", "of", " ", "5">>}

\* C19, as stated: with k > 0 star elements the rating is k; else it is the
\* number adjacent to "/5" or "out of 5" in the first text that has one; else
\* it is 0.
C19_AdjacentNumber ==
    \A r \in 1..Len(reviews) :
        LET adj == {k \in 1..Len(Parts) : AdjacentPlaces(Parts[k].text) # {}}
            k1 == CHOOSE k \in adj : \A j \in adj : k <= j
            t == Parts[k1].text
        IN  reviews[r].rating =
                IF StarCount > 0 THEN 10 * StarCount
                ELSE IF adj = {} THEN 0
                ELSE Tenths(t, CHOOSE a \in AdjacentPlaces(t) :
                                   \A b \in AdjacentPlaces(t) : a <= b)

\* C19, amended: with k > 0 star elements the rating is k. Else the texts of
\* the fragment that hold "/5", "out of 5" or "stars" are looked at in document
\* order, and the rating is the first number of the first such text that holds
\* a number, adjacent to the marker or not ("4.2 out of 5" gives 4.2, "5 stars"
\* gives 5, "31 days ago: 4.2 out of 5" gives 31). Without such a text the
\* rating is 0.
C19_FirstNumberOfMarkedText ==
    \A r \in 1..Len(reviews) :
        LET marked == {k \in 1..Len(Parts) :
                          /\ \/ Contains(<<"/", "5">>, Parts[k].text)
                             \/ Contains(<<"out", " ", "of", " ", "5">>, Parts[k].text)
                             \/ Contains(<<"stars">>, Parts[k].text)
                          /\ NumberPlaces(Parts[k].text) # {}}
            k1 == CHOOSE k \in marked : \A j \in marked : k <= j
            t == Parts[k1].text
        IN  reviews[r].rating =
                IF StarCount > 0 THEN 10 * StarCount
                ELSE IF marked = {} THEN 0
                ELSE Tenths(t, CHOOSE a \in NumberPlaces(t) :
                                   \A b \in NumberPlaces(t) : a <= b)

C19_Witness ==
    /\ parse_pc = "done"
    /\ Len(reviews) = 1
    /\ StarCount = 0
    /\ Len(Parts) = 2
    /\ Parts[1].text = <<"stars">>
    /\ Parts[2].text =
          <<"31", " ", "days", " ", "ago", ":", " ", "4.2", " ", "out", " ", "of", " ", "5">>
    /\ reviews[1].rating = 310

(***************************************************************************)
(* Properties of add_anti_bot_measures.                                    *)
(***************************************************************************)

\* C20, as stated: add_anti_bot_measures never fails its caller, whichever
\* driver calls raise.
C20_NeverFailsCaller ==
    /\ prep_pc # "raised"
    /\ prep_out # Raised("WebDriverException")

\* C20, amended: add_anti_bot_measures has no handler. It makes its three
\* driver calls in order; when none raises it returns the driver, and the
\* first call that raises ends it: the exception reaches the caller and the
\* calls after it are not made.
C20_FirstFailurePropagates ==
    /\ prep_pc = "returned" =>
          /\ prep_faults = {}
          /\ prep_out = [kind |-> "driver"]
          /\ Len(prep_calls) = 3
    /\ prep_pc = "raised" =>
          /\ prep_out = Raised("WebDriverException")
          /\ Len(prep_calls) < 3
          /\ DriverCalls[Len(prep_calls) + 1] \in prep_faults
          /\ \A k \in 1..Len(prep_calls) : DriverCalls[k] \notin prep_faults
    /\ \A k \in 1..Len(prep_calls) : prep_calls[k].call = DriverCalls[k]

C20_Witness ==
    /\ prep_pc = "raised"
    /\ prep_faults = {"set_window_size"}
    /\ Len(prep_calls) = 2
    /\ prep_out = Raised("WebDriverException")

(***************************************************************************)
(* Properties of the rotation over one pool.                               *)
(***************************************************************************)

\* C21: on a fixed, non-empty pool of n endpoints the j-th call, counted from
\* a call that found the cursor at c, returns the endpoint at position
\* (c + j - 1) mod n, so n consecutive calls return every endpoint exactly
\* once; a call on an empty pool returns None and leaves the cursor as it was.
C21_RoundRobin ==
    LET n == Len(proxies)
    IN  /\ \A a \in 1..Len(rot_log) : \A b \in a..Len(rot_log) :
               (n > 0 /\ rot_log[a].n = n)
               => rot_log[b].ret =
                      proxies[((rot_log[a].cursor + (b - a + 1) - 1) % n) + 1]
        /\ \A a \in 1..Len(rot_log) :
               (n > 0 /\ rot_log[a].n = n /\ a + n - 1 <= Len(rot_log))
               => /\ {rot_log[k].ret : k \in a..(a + n - 1)} = Range(proxies)
                  /\ \A k, l \in a..(a + n - 1) :
                         rot_log[k].ret = rot_log[l].ret => k = l
        /\ \A k \in 1..Len(rot_log) :
               rot_log[k].n = 0
               => /\ rot_log[k].ret = "None"
                  /\ rot_log[k].after = rot_log[k].cursor

\* One call on the empty pool, then two full rounds over three endpoints that
\* start in the middle of the pool.
C21_Witness ==
    /\ Len(proxies) = 3
    /\ Len(rot_log) = MaxCalls
    /\ rot_log[1].n = 0
    /\ rot_log[3].cursor = 1
    /\ rot_log[5].ret = proxies[1]
    /\ rot_log[6].cursor = 1

(***************************************************************************)
(* Properties of the pool under reloads.                                   *)
(***************************************************************************)

\* C22: after any sequence of get_proxy_list and get_next_proxy calls the
\* cursor is an index of the pool whenever the pool is non-empty, and no
\* get_next_proxy call has failed with an index out of range.
C22_CursorInRange ==
    /\ (proxies # <<>>) => current_proxy_index < Len(proxies)
    /\ last_proxy # "IndexError"

(***************************************************************************)
(* Properties of the retry wrapper: errors outside error_types.            *)
(***************************************************************************)

\* C23: an error whose kind is not in error_types is never retried. The
\* invocation that raises it is the last one: the error itself reaches the
\* caller in the same step, no retry is counted, the wrapper does not sleep
\* and the wait is not multiplied, and nothing runs after the raise. Raised by
\* the first invocation, it reaches the caller after exactly one invocation.
C23_NotRetried ==
    [][/\ (calls' = calls + 1 /\ last_fail' \in ErrorKinds \ error_types)
          => /\ pc' = "raised"
             /\ outcome' = Raised(last_fail')
             /\ sleeps' = sleeps
             /\ retries' = retries
             /\ wait_time' = wait_time
             /\ (calls = 0) => (calls' = 1 /\ sleeps' = <<>>)
       /\ pc # "raised"
      ]_vars

\* A wrapper with two retries left gives up on the first invocation.
C23_Witness ==
    /\ pc = "raised"
    /\ error_types = {"TimeoutException"}
    /\ outcome = Raised("WebDriverException")
    /\ max_retries = 2
    /\ calls = 1
    /\ sleeps = <<>>

(***************************************************************************)
(* Properties of parse_reviews and save_to_csv called one after the other. *)
(***************************************************************************)

\* Neither a selector of review_selectors nor the class-based search finds a
\* node of doc.
NoStrategyMatches(doc) ==
    /\ \A k \in 1..Len(review_selectors) : select(doc, review_selectors[k]) = <<>>
    /\ find_all_generic(doc) = <<>>

\* C24: when no container strategy matches the document, parse_reviews finds
\* an empty list of fragments, goes through its loop without processing one
\* and without an error, ends, and leaves the collection as it was.
C24_NoMatchNoChange ==
    [][(parse_pc \in {"start", "loop"} /\ NoStrategyMatches(document))
          => /\ parse_pc = "start" => (parse_pc' = "loop" /\ all_reviews' = <<>>)
             /\ parse_pc = "loop" => (pos > Len(all_reviews) /\ parse_pc' = "done")
             /\ processed' = <<>>
             /\ reviews' = reviews
             /\ next_id' = next_id
      ]_vars

\* A second pass over a page with nodes, none of them a review, has ended and
\* the record of the first pass is still what the collection holds.
C24_Witness ==
    /\ passes = 2
    /\ parse_pc = "done"
    /\ Len(document) = 2
    /\ NoStrategyMatches(document)
    /\ processed = <<>>
    /\ Len(reviews) = 1

(***************************************************************************)
(* Properties of the retry wrapper: what it returns, and that it ends.     *)
(***************************************************************************)

\* C25: with retry_on_captcha set, no result the wrapper returns is a driver
\* whose page source holds recaptcha, hcaptcha or captcha; this includes the
\* result of the re-run that follows a handled CAPTCHA.
C25_NoCaptchaPageReturned ==
    (retry_on_captcha /\ pc = "returned" /\ outcome.result.kind = "driver")
    => ~ has_captcha_word(outcome.result.page)

\* C26: every call of the wrapper ends, with a returned result or a raised
\* error, whatever the invocations and the CAPTCHA waits turn out to be.
C26_Terminates == <>(pc \in {"returned", "raised"})

\* The longest run: every pass of the loop re-runs the function after a
\* CAPTCHA wait that took its time, and every re-run fails.
C26_Witness ==
    /\ pc = "raised"
    /\ max_retries = MaxRetries
    /\ calls = 2 * (max_retries + 1)
    /\ elapsed > 0

(***************************************************************************)
(* Properties of the session: what a failed step stops.                    *)
(***************************************************************************)

\* C27: when the body element does not load, scrape_product_reviews returns
\* None after navigate_to_product alone, with no fragment processed and the
\* collection as it was. A page without a reviews section is navigated all the
\* same, a filter that could not be selected leads on to load_all_reviews, and
\* a session that returned without reaching parse_reviews was stopped by the
\* navigation or by an exception, never by the filter or the missing section.
C27_OnlyNavigationStops ==
    [][/\ (s_pc = "start" /\ ~ site.body /\ s_pc' # "start")
          => /\ s_pc' = "returned"
             /\ ret' = None
             /\ ops' = <<"navigate_to_product">>
             /\ reviews' = reviews
             /\ processed' = <<>>
             /\ parse_pc' = "idle"
       /\ (s_pc = "start" /\ site.body /\ s_pc' # "start" /\ fail' # "error")
          => (s_pc' = "navigated" /\ fail' = "none")
       /\ (s_pc = "navigated" /\ s_pc' # "navigated")
          => (s_pc' = "filtered" /\ fail' = "none")
       /\ (s_pc' = "returned" /\ fail' = "none")
          => \E k \in 1..Len(ops') : ops'[k] = "parse_reviews"
      ]_vars

\* The session has returned None after a navigation that found no body, on a
\* page whose reviews parse_reviews would have found.
C27_Witness ==
    /\ s_pc = "returned"
    /\ fail = "navigation"
    /\ ret = None
    /\ ops = <<"navigate_to_product">>
    /\ locate_reviews(document) # <<>>
    /\ reviews = <<>>

(***************************************************************************)
(* Properties of the collection over parse_reviews calls and saves.        *)
(***************************************************************************)

\* C28: across parse_reviews calls and saves the collection only grows at its
\* end, by one record at a time: the records it held stay what they were and
\* where they were, a save leaves it alone, and a new call of parse_reviews
\* starts from the collection as the last one left it.
C28_AppendOnly ==
    [][/\ Len(reviews') \in {Len(reviews), Len(reviews) + 1}
       /\ \A k \in 1..Len(reviews) : reviews'[k] = reviews[k]
       /\ (saved' # saved \/ passes' # passes) => reviews' = reviews
      ]_vars

\* Two passes have each added a record, and the frame of a save made between
\* them holds the first record only.
C28_Witness ==
    /\ passes = 2
    /\ parse_pc = "done"
    /\ Len(reviews) >= 2
    /\ reviews[1].review_id < reviews[2].review_id
    /\ saved.kind = "DataFrame"
    /\ saved.rows = <<reviews[1]>>

(***************************************************************************)
(* Properties of categorize_sentiment.                                     *)
(***************************************************************************)

====
